---- MODULE Spec2Model ----
(***************************************************************************)
(* State-machine model of the PDF editor backend: the subscription and     *)
(* payment subsystem (models/user.py, models/subscription.py,              *)
(* services/subscription_service.py, routes/payment_routes.py,             *)
(* routes/subscription_routes.py) and the document routes (app.py,         *)
(* routes/pdf_routes.py, routes/stats_routes.py, crud.py), the endpoints    *)
(* that resolve the caller from a JWT (routes/auth_routes.py), and the     *)
(* files the upload, download and merge handlers write                     *)
(* (utils/pdf_processor.py).                                               *)
(***************************************************************************)
EXTENDS Integers, Sequences, FiniteSets, TLC

(* ------------------------------ bounds -------------------------------- *)
\* number of user_subscriptions rows the model lets the table grow to
MaxSubs == 3
\* cap on pdf_count_this_month (increment_pdf_count is disabled above it)
MaxCount == 1
\* number of subscription and payment requests a behaviour handles
MaxOps == 4
\* number of document requests a behaviour handles
MaxReqs == 3
\* rows of the pdfs table, entries of the in-memory SESSIONS store, rows of
\* the pdf_versions table
MaxPdfs == 2
MaxSessions == 2
MaxVersions == 3

\* ticks of the clock, and access tokens the identity provider issues
MaxTime == 1
\* largest pdf_count_this_month the quota behaviours count to
MaxQuota == 6
MaxTokens == 2
\* number of requests that name files in a behaviour
MaxFileOps == 3
\* number of sessions with a stored file
MaxUploads == 2
\* longest signature list handed to apply_signatures
MaxSigs == 3
\* longest edit list handed to an apply_text_edits
MaxEdits == 2
\* number of calls of the Drive functions
MaxDriveOps == 3
\* longest local part of an email address
MaxLocalLen == 3
\* number of events of the editor window
MaxEvents == 6
\* highest zoom level, in tenths
MaxZoom == 17

(* ------------------------- program constants -------------------------- *)
PLAN_FREE_LIMIT == 5
PLAN_BASIC_LIMIT == 50
PLAN_PRO_LIMIT == -1

None == "none"
\* timestamps are opaque: a column is NULL (NoTime) or holds the stamp of
\* the call that wrote it: UtcNow for datetime.utcnow(), UtcNowPlus30 for
\* datetime.utcnow() + timedelta(days=30), EventTime for the period end a
\* webhook event carries
NoTime == "null"
UtcNow == "utcnow"
UtcNowPlus30 == "utcnow+30d"
EventTime == "event.current_period_end"

Users == {"u1", "u2"}
\* page counts of the files uploaded
PageCounts == {2}
StripeIds == {"sub_1"}
PlanIds == {"plan_free", "plan_basic", "plan_pro"}

\* the subscription_plans table (name and pdf_limit columns), seeded with
\* the limits of config.py
SubscriptionPlan ==
    [p \in PlanIds |->
        CASE p = "plan_free"  -> [name |-> "free",  pdf_limit |-> PLAN_FREE_LIMIT]
          [] p = "plan_basic" -> [name |-> "basic", pdf_limit |-> PLAN_BASIC_LIMIT]
          [] p = "plan_pro"   -> [name |-> "pro",   pdf_limit |-> PLAN_PRO_LIMIT]]

\* SubscriptionService.get_plan_by_name: the plan id, or None
get_plan_by_name(name) ==
    IF \E p \in PlanIds : SubscriptionPlan[p].name = name
    THEN CHOOSE p \in PlanIds : SubscriptionPlan[p].name = name
    ELSE None

VARIABLES
    users,      \* users table: id -> [current_plan, pdf_limit, pdf_count_this_month]
    subs,       \* user_subscriptions table, in insertion order
    nops,       \* number of requests handled so far
    lastOp,     \* the last subscription or payment request and its answer
    pdfs,       \* pdfs table (models.py PDF); a row's id is its position
    pdf_pages,  \* pdf_pages table
    pdf_versions, \* pdf_versions table
    SESSIONS,   \* routes/pdf_routes.py SESSIONS; a session's id is its position
    lastReq,    \* the last document request and its answer
    pending,    \* writer -> the create_pdf_version call it is inside, or Idle
    serial,     \* no two create_pdf_version calls have overlapped so far
    USERS,      \* routes/auth_routes.py USERS: email -> cached user, or NoEntry
    AUTH_SESSIONS, \* routes/auth_routes.py SESSIONS: the users whose JWT has an entry
    google,     \* users table, OAuth and customer columns: email -> row, or NoEntry
    now,        \* datetime.utcnow(), in units of an access token's lifetime
    issued,     \* number of access tokens the identity provider has issued
    lastAuth,   \* the last request that carried a JWT and its answer
    files,      \* the upload and output directories: path -> file
    uploads,    \* file columns of the stored sessions; a session's id is its position
    nfile,      \* number of requests that named files so far
    lastFile,   \* the last such request and its outcome
    lastEdit,   \* the last call of an apply_text_edits and what it returned
    lastStats,  \* the last GET /api/stats request and the totals it answered
    drive_folders, \* names of the folders inside the main Drive folder
    drive_files,   \* the files on the Drive: parent folder, user uploaded for
    ndrive,     \* number of Drive calls so far
    lastList,   \* the last list_user_files call and the files it returned
    editor,     \* the fields of the PDFVisualEditor object
    selected_on, \* the file and page that were displayed at the click that
                \* set editor.selected_text_rects
    lastReplace, \* the last replace_selected that edited a page
    nui         \* number of events the editor window has handled

subvars == <<subs, lastOp>>
docvars == <<pdfs, pdf_pages, pdf_versions, SESSIONS, lastReq>>
vervars == <<pending, serial>>
\* state of the subsystems the subscription and document handlers leave alone
authvars == <<USERS, AUTH_SESSIONS, google, now, issued, lastAuth>>
filevars == <<files, uploads, nfile, lastFile, lastEdit>>
statvars == <<lastStats>>
drivevars == <<drive_folders, drive_files, ndrive, lastList>>
editorvars == <<editor, selected_on, lastReplace, nui>>
auxvars == <<vervars, authvars, filevars, statvars, drivevars, editorvars>>
vars == <<users, subs, nops, lastOp, pdfs, pdf_pages, pdf_versions, SESSIONS,
          lastReq, auxvars>>

(* ------------------------------ User ---------------------------------- *)
\* a freshly created User row (column defaults of models/user.py)
NewUser == [current_plan |-> "free", pdf_limit |-> 5, pdf_count_this_month |-> 0]

\* can_process_pdf with the comparison made inclusive
can_process_pdf_inclusive(u) ==
    IF u.current_plan = "pro" THEN TRUE
    ELSE u.pdf_count_this_month <= u.pdf_limit

can_process_pdf(u) ==
    IF u.current_plan = "pro" THEN TRUE
    ELSE u.pdf_count_this_month < u.pdf_limit

increment_pdf_count(u) ==
    [u EXCEPT !.pdf_count_this_month = @ + 1]

reset_monthly_count(u) ==
    [u EXCEPT !.pdf_count_this_month = 0]

(* ------------------------ SubscriptionService ------------------------- *)
ActiveRows(S, uid) ==
    {i \in 1..Len(S) : S[i].user_id = uid /\ S[i].status = "active"}

\* scalar_one_or_none(): the row when exactly one matches, None (0) when
\* none matches; with several matches it raises MultipleResultsFound, which
\* the function's except clause turns into None as well
get_user_active_subscription(S, uid) ==
    LET A == ActiveRows(S, uid)
    IN  IF Cardinality(A) = 1 THEN CHOOSE i \in A : TRUE ELSE 0

\* result: the tables after the call, ok = FALSE when the commit raised
\* (unique constraint on stripe_subscription_id) and was rolled back
create_subscription(S, U, uid, pid, sid) ==
    LET existing == get_user_active_subscription(S, uid)
        S1 == IF existing # 0
              THEN [S EXCEPT ![existing].status = "cancelled",
                             ![existing].end_date = UtcNow,
                             ![existing].cancelled_at = UtcNow]
              ELSE S
        subscription ==
            [user_id |-> uid, plan_id |-> pid,
             stripe_subscription_id |-> sid,
             status |-> "active",
             start_date |-> UtcNow,
             current_period_start |-> UtcNow,
             current_period_end |-> UtcNowPlus30,
             end_date |-> NoTime,
             cancel_at_period_end |-> FALSE,
             cancelled_at |-> NoTime]
        plan == SubscriptionPlan[pid]
        U1 == [U EXCEPT ![uid] = [current_plan |-> plan.name,
                                  pdf_limit |-> plan.pdf_limit,
                                  pdf_count_this_month |-> 0]]
        duplicate == /\ sid # None
                     /\ \E i \in 1..Len(S) : S[i].stripe_subscription_id = sid
    IN  IF duplicate
        THEN [subs |-> S, users |-> U, ok |-> FALSE, row |-> 0, existing |-> 0]
        ELSE [subs |-> Append(S1, subscription), users |-> U1, ok |-> TRUE,
              row |-> Len(S) + 1, existing |-> existing]

\* cancel_subscription with the downgrade moved out of the "if not
\* cancel_at_period_end" block
cancel_subscription_always_downgrades(S, U, uid, cancel_at_period_end) ==
    LET subscription == get_user_active_subscription(S, uid)
        S1 == [S EXCEPT ![subscription].cancel_at_period_end = cancel_at_period_end,
                        ![subscription].cancelled_at = UtcNow]
        S2 == [S1 EXCEPT ![subscription].status = "cancelled",
                         ![subscription].end_date = UtcNow]
        U2 == [U EXCEPT ![uid].current_plan = "free",
                        ![uid].pdf_limit = 5]
    IN  IF subscription = 0
        THEN [subs |-> S, users |-> U, status |-> 404, row |-> 0]
        ELSE IF ~cancel_at_period_end
        THEN [subs |-> S2, users |-> U2, status |-> 200, row |-> subscription]
        ELSE [subs |-> S1, users |-> U2, status |-> 200, row |-> subscription]

\* result: status 404 when no active subscription was found, else 200
cancel_subscription(S, U, uid, cancel_at_period_end) ==
    LET subscription == get_user_active_subscription(S, uid)
        S1 == [S EXCEPT ![subscription].cancel_at_period_end = cancel_at_period_end,
                        ![subscription].cancelled_at = UtcNow]
        S2 == [S1 EXCEPT ![subscription].status = "cancelled",
                         ![subscription].end_date = UtcNow]
        U2 == [U EXCEPT ![uid].current_plan = "free",
                        ![uid].pdf_limit = 5]
    IN  IF subscription = 0
        THEN [subs |-> S, users |-> U, status |-> 404, row |-> 0]
        ELSE IF ~cancel_at_period_end
        THEN [subs |-> S2, users |-> U2, status |-> 200, row |-> subscription]
        ELSE [subs |-> S1, users |-> U, status |-> 200, row |-> subscription]

\* update_subscription_from_stripe with "past_due" added to the statuses
\* that downgrade the user
update_subscription_from_stripe_past_due(S, U, sid, status, current_period_end) ==
    LET M == {i \in 1..Len(S) : S[i].stripe_subscription_id = sid}
        subscription == IF Cardinality(M) = 1 THEN CHOOSE i \in M : TRUE ELSE 0
        S1 == [S EXCEPT ![subscription].status = status,
                        ![subscription].current_period_end = current_period_end]
        uid == S[subscription].user_id
        U1 == IF status \in {"cancelled", "expired", "unpaid", "past_due"}
              THEN [U EXCEPT ![uid].current_plan = "free", ![uid].pdf_limit = 5]
              ELSE U
    IN  IF subscription = 0
        THEN [subs |-> S, users |-> U, row |-> 0]
        ELSE [subs |-> S1, users |-> U1, row |-> subscription]

\* update_subscription_from_stripe with the downgrade also resetting the
\* user's monthly count, as create_subscription does
update_subscription_from_stripe_resets(S, U, sid, status, current_period_end) ==
    LET M == {i \in 1..Len(S) : S[i].stripe_subscription_id = sid}
        subscription == IF Cardinality(M) = 1 THEN CHOOSE i \in M : TRUE ELSE 0
        S1 == [S EXCEPT ![subscription].status = status,
                        ![subscription].current_period_end = current_period_end]
        uid == S[subscription].user_id
        U1 == IF status \in {"cancelled", "expired", "unpaid"}
              THEN [U EXCEPT ![uid].current_plan = "free", ![uid].pdf_limit = 5,
                             ![uid].pdf_count_this_month = 0]
              ELSE U
    IN  IF subscription = 0
        THEN [subs |-> S, users |-> U, row |-> 0]
        ELSE [subs |-> S1, users |-> U1, row |-> subscription]

\* rows that carry the external id (sid = None selects IS NULL); several
\* matches make scalar_one_or_none() raise, the except clause rolls back
update_subscription_from_stripe(S, U, sid, status, current_period_end) ==
    LET M == {i \in 1..Len(S) : S[i].stripe_subscription_id = sid}
        subscription == IF Cardinality(M) = 1 THEN CHOOSE i \in M : TRUE ELSE 0
        S1 == [S EXCEPT ![subscription].status = status,
                        ![subscription].current_period_end = current_period_end]
        uid == S[subscription].user_id
        U1 == IF status \in {"cancelled", "expired", "unpaid"}
              THEN [U EXCEPT ![uid].current_plan = "free", ![uid].pdf_limit = 5]
              ELSE U
    IN  IF subscription = 0
        THEN [subs |-> S, users |-> U, row |-> 0]
        ELSE [subs |-> S1, users |-> U1, row |-> subscription]

(* --------------------------- webhook events --------------------------- *)
\* statuses the payment processor reports; "trialing" stands for the ones
\* status_map does not list
StripeStatuses == {"active", "past_due", "canceled", "unpaid", "trialing"}
\* the local statuses of a UserSubscription row
Statuses == {"active", "past_due", "cancelled", "unpaid", "expired"}
\* plan names a checkout session's metadata carries ("gold" is no plan)
CheckoutPlanNames == {"basic", "pro", "gold", None}

Event(type, wellformed, user_id, plan_name, subscription, status) ==
    [kind |-> "event", type |-> type, wellformed |-> wellformed,
     user_id |-> user_id, plan_name |-> plan_name,
     subscription |-> subscription, status |-> status]

\* request bodies of POST /api/payment/webhook: text that is not JSON, JSON
\* that is not an object, an object without "type", and events; an event
\* that is not wellformed lacks the keys its handler indexes
Bodies ==
    {[Event(None, FALSE, None, None, None, None) EXCEPT !.kind = k]
        : k \in {"invalid_json", "not_object", "no_type"}} \cup
    {Event(ty, FALSE, None, None, None, None)
        : ty \in {"payment_intent.succeeded", "payment_intent.payment_failed",
                  "checkout.session.completed", "customer.subscription.updated",
                  "customer.subscription.deleted", "invoice.payment_succeeded",
                  "invoice.payment_failed"}} \cup
    {Event(ty, TRUE, None, None, None, None)
        : ty \in {"payment_intent.succeeded", "payment_intent.payment_failed",
                  "charge.refunded"}} \cup
    {Event("checkout.session.completed", TRUE, u, pn, sid, None)
        : u \in Users \cup {None}, pn \in CheckoutPlanNames,
          sid \in StripeIds \cup {None}} \cup
    {Event("customer.subscription.updated", TRUE, None, None, sid, st)
        : sid \in StripeIds \cup {None}, st \in StripeStatuses} \cup
    {Event(ty, TRUE, None, None, sid, None)
        : ty \in {"customer.subscription.deleted", "invoice.payment_succeeded",
                  "invoice.payment_failed"},
          sid \in StripeIds \cup {None}}

\* PaymentService.construct_webhook_event: 0 when the event is returned,
\* else the status of the HTTPException it raises
construct_webhook_event(body) ==
    IF body.kind \in {"invalid_json", "not_object"} THEN 400 ELSE 0

\* what a handler leaves: the tables, whether it raised, and the service
\* call it committed with the row that call wrote
Handled(S, U, raised, commit, row) ==
    [subs |-> S, users |-> U, raised |-> raised, commit |-> commit, row |-> row]

handle_payment_intent_succeeded(S, U, event) ==
    Handled(S, U, ~event.wellformed, None, 0)

handle_payment_intent_failed(S, U, event) ==
    Handled(S, U, ~event.wellformed, None, 0)

handle_checkout_completed(S, U, event) ==
    IF ~event.wellformed THEN Handled(S, U, TRUE, None, 0)
    ELSE IF event.user_id = None \/ event.plan_name = None
    THEN Handled(S, U, FALSE, None, 0)
    ELSE LET plan == get_plan_by_name(event.plan_name)
             r == create_subscription(S, U, event.user_id, plan,
                                      event.subscription)
         IN  IF plan = None THEN Handled(S, U, FALSE, None, 0)
             ELSE IF ~r.ok THEN Handled(r.subs, r.users, TRUE, None, 0)
             ELSE Handled(r.subs, r.users, FALSE, "create_subscription", r.row)

status_map(s) ==
    CASE s = "active"   -> "active"
      [] s = "past_due" -> "past_due"
      [] s = "canceled" -> "cancelled"
      [] s = "unpaid"   -> "unpaid"
      [] OTHER          -> "active"

\* the update path of the three handlers that call it
Updated(r) ==
    Handled(r.subs, r.users, FALSE,
            IF r.row # 0 THEN "update_subscription_from_stripe" ELSE None,
            r.row)

handle_subscription_updated(S, U, event) ==
    IF ~event.wellformed THEN Handled(S, U, TRUE, None, 0)
    ELSE Updated(update_subscription_from_stripe(S, U, event.subscription,
                    status_map(event.status), EventTime))

handle_subscription_deleted(S, U, event) ==
    IF ~event.wellformed THEN Handled(S, U, TRUE, None, 0)
    ELSE Updated(update_subscription_from_stripe(S, U, event.subscription,
                    "cancelled", UtcNow))

handle_invoice_payment_succeeded(S, U, event) ==
    Handled(S, U, ~event.wellformed, None, 0)

handle_invoice_payment_failed(S, U, event) ==
    IF ~event.wellformed THEN Handled(S, U, TRUE, None, 0)
    ELSE IF event.subscription = None THEN Handled(S, U, FALSE, None, 0)
    ELSE Updated(update_subscription_from_stripe(S, U, event.subscription,
                    "past_due", UtcNow))

\* the if/elif chain of stripe_webhook
dispatch(S, U, event) ==
    CASE event.type = "payment_intent.succeeded" ->
            handle_payment_intent_succeeded(S, U, event)
      [] event.type = "payment_intent.payment_failed" ->
            handle_payment_intent_failed(S, U, event)
      [] event.type = "checkout.session.completed" ->
            handle_checkout_completed(S, U, event)
      [] event.type = "customer.subscription.updated" ->
            handle_subscription_updated(S, U, event)
      [] event.type = "customer.subscription.deleted" ->
            handle_subscription_deleted(S, U, event)
      [] event.type = "invoice.payment_succeeded" ->
            handle_invoice_payment_succeeded(S, U, event)
      [] event.type = "invoice.payment_failed" ->
            handle_invoice_payment_failed(S, U, event)
      [] OTHER -> Handled(S, U, FALSE, None, 0)

\* stripe_webhook without the try/except around the dispatch: an exception
\* of the handler becomes a 500
stripe_webhook_unguarded(S, U, body) ==
    LET rejected == construct_webhook_event(body)
        r == dispatch(S, U, body)
    IN  IF rejected # 0
        THEN [subs |-> S, users |-> U, status |-> rejected, raised |-> TRUE,
              commit |-> None, row |-> 0]
        ELSE IF body.kind = "no_type"
        THEN [subs |-> S, users |-> U, status |-> 500, raised |-> TRUE,
              commit |-> None, row |-> 0]
        ELSE [subs |-> r.subs, users |-> r.users,
              status |-> IF r.raised THEN 500 ELSE 200,
              raised |-> r.raised, commit |-> r.commit, row |-> r.row]

\* the answer of POST /api/payment/webhook and the tables it leaves; an
\* exception of the handler is caught and logged
stripe_webhook(S, U, body) ==
    LET rejected == construct_webhook_event(body)
        r == dispatch(S, U, body)
    IN  IF rejected # 0
        THEN [subs |-> S, users |-> U, status |-> rejected, raised |-> TRUE,
              commit |-> None, row |-> 0]
        ELSE IF body.kind = "no_type"
        THEN [subs |-> S, users |-> U, status |-> 500, raised |-> TRUE,
              commit |-> None, row |-> 0]
        ELSE [subs |-> r.subs, users |-> r.users, status |-> 200,
              raised |-> r.raised, commit |-> r.commit, row |-> r.row]

(* ------------------------------- crud --------------------------------- *)
\* the size in bytes of the files uploaded
FileSize == 1024

\* crud.create_pdf: session ids are fresh uuid4 values, here the row's id
create_pdf(P, user_id, total_pages) ==
    Append(P, [user_id |-> user_id, session_id |-> Len(P) + 1,
               total_pages |-> total_pages, file_size |-> FileSize,
               is_active |-> TRUE])

\* get_pdf_by_session without its filter on is_active
get_pdf_by_session_deleted_too(P, session_id) ==
    LET M == {i \in 1..Len(P) : P[i].session_id = session_id}
    IN  IF M = {} THEN 0 ELSE CHOOSE i \in M : \A j \in M : i <= j

\* the id of the row, 0 for None
get_pdf_by_session(P, session_id) ==
    LET M == {i \in 1..Len(P) : P[i].session_id = session_id /\ P[i].is_active}
    IN  IF M = {} THEN 0 ELSE CHOOSE i \in M : \A j \in M : i <= j

get_pdf_by_id(P, pdf_id) ==
    IF pdf_id \in 1..Len(P) /\ P[pdf_id].is_active THEN pdf_id ELSE 0

\* the ids of the rows listed (skip and limit left out); user_id = None
\* lists the documents of every user
get_all_pdfs(P, user_id) ==
    {i \in 1..Len(P) : /\ P[i].is_active
                        /\ (user_id # None => P[i].user_id = user_id)}

\* matching: the rows whose original_filename the pattern matches
search_pdfs(P, matching, user_id) ==
    {i \in matching : /\ i \in 1..Len(P)
                       /\ P[i].is_active
                       /\ (user_id # None => P[i].user_id = user_id)}

delete_pdf(P, pdf_id) ==
    IF get_pdf_by_id(P, pdf_id) # 0
    THEN [P EXCEPT ![pdf_id].is_active = FALSE]
    ELSE P

create_pdf_page(G, pdf_id, page_number) ==
    Append(G, [pdf_id |-> pdf_id, page_number |-> page_number])

\* page numbers of the rows of a document
get_pdf_pages(G, pdf_id) ==
    {G[i].page_number : i \in {j \in 1..Len(G) : G[j].pdf_id = pdf_id}}

\* version numbers of the rows of a document
get_pdf_versions(V, pdf_id) ==
    {V[i].version_number : i \in {j \in 1..Len(V) : V[j].original_pdf_id = pdf_id}}

\* the query for the last version without its filter on original_pdf_id
next_version_number_any_document(V, original_pdf_id) ==
    LET N == {V[i].version_number : i \in 1..Len(V)}
    IN  IF N = {} THEN 1 ELSE (CHOOSE n \in N : \A m \in N : m <= n) + 1

\* create_pdf_version, first half: the query for the last version and the
\* number computed from it
next_version_number(V, original_pdf_id) ==
    LET N == get_pdf_versions(V, original_pdf_id)
    IN  IF N = {} THEN 1 ELSE (CHOOSE n \in N : \A m \in N : m <= n) + 1

\* an insert under a unique constraint on (original_pdf_id, version_number),
\* which rejects the row when one with the pair exists
add_version_unique(V, original_pdf_id, version_number) ==
    IF \E i \in 1..Len(V) : /\ V[i].original_pdf_id = original_pdf_id
                             /\ V[i].version_number = version_number
    THEN V
    ELSE Append(V, [original_pdf_id |-> original_pdf_id,
                    version_number |-> version_number])

\* create_pdf_version, second half: db.add(version); db.commit()
add_version(V, original_pdf_id, version_number) ==
    Append(V, [original_pdf_id |-> original_pdf_id,
               version_number |-> version_number])

create_pdf_version(V, original_pdf_id) ==
    add_version(V, original_pdf_id, next_version_number(V, original_pdf_id))

(* --------------------------- document routes -------------------------- *)
\* callers: a user whose token is valid, or None for no or a bad token
Callers == Users \cup {None}

\* answer of a document request: HTTP status, the document or session whose
\* content (pages, versions, file) the body carries (0: none), and the
\* version row the request created (0: none)
Answer(status, returned, version) ==
    [status |-> status, returned |-> returned, version |-> version]

\* app.py upload_pdf. file: "not_pdf" for a wrong extension, "unreadable"
\* when fitz.open raises, else "pdf"; rendered: the number of pages that
\* render before one fails (total_pages when none fails)
app_upload_pdf(P, G, file, total_pages, rendered) ==
    LET P1 == create_pdf(P, None, total_pages)
        id == Len(P) + 1
        AddPages[k \in 0..total_pages] ==
            IF k = 0 THEN G ELSE create_pdf_page(AddPages[k - 1], id, k - 1)
    IN  IF file = "not_pdf"
        THEN [pdfs |-> P, pages |-> G, answer |-> Answer(400, 0, 0)]
        ELSE IF file = "unreadable"
        THEN [pdfs |-> P, pages |-> G, answer |-> Answer(500, 0, 0)]
        ELSE IF rendered < total_pages
        THEN [pdfs |-> P1, pages |-> AddPages[rendered],
              answer |-> Answer(500, 0, 0)]
        ELSE [pdfs |-> P1, pages |-> AddPages[total_pages],
              answer |-> Answer(200, id, 0)]

\* routes/pdf_routes.py upload_pdf: user_email is the email of the token's
\* AUTH_SESSIONS entry, None without one
routes_upload_pdf(SS, file, total_pages, rendered, user_email) ==
    IF file = "not_pdf"
    THEN [sessions |-> SS, answer |-> Answer(400, 0, 0)]
    ELSE IF file = "unreadable" \/ rendered < total_pages
    THEN [sessions |-> SS, answer |-> Answer(500, 0, 0)]
    ELSE [sessions |-> Append(SS, [user_email |-> user_email,
                                   total_pages |-> total_pages]),
          answer |-> Answer(200, Len(SS) + 1, 0)]

\* a download request and what the file system and the editing engine do
\* with it: numbers of edits and signatures, and engine: "missing" when the
\* original file is no longer on disk, "edits_fail" / "signatures_fail"
\* when apply_text_edits / apply_signatures reports failure, else "ok"
DownloadRequests ==
    [session_id : 1..(MaxPdfs + 1), edits : 0..1, signatures : 0..1,
     engine : {"ok", "missing", "edits_fail", "signatures_fail"}]

\* the part of both download handlers between the lookup and the answer:
\* 0 when the edited file was written, else the status raised
edit_file(request) ==
    IF request.engine = "missing" THEN 404
    ELSE IF request.edits > 0 /\ request.engine = "edits_fail" THEN 500
    ELSE IF request.signatures > 0 /\ request.engine = "signatures_fail" THEN 500
    ELSE 0

\* app.py download_pdf
app_download_pdf(P, V, request) ==
    LET pdf_record == get_pdf_by_session(P, request.session_id)
    IN  IF request.edits = 0 /\ request.signatures = 0
        THEN [versions |-> V, answer |-> Answer(400, 0, 0)]
        ELSE IF pdf_record = 0
        THEN [versions |-> V, answer |-> Answer(404, 0, 0)]
        ELSE IF edit_file(request) # 0
        THEN [versions |-> V, answer |-> Answer(edit_file(request), 0, 0)]
        ELSE [versions |-> create_pdf_version(V, pdf_record),
              answer |-> Answer(200, pdf_record, Len(V) + 1)]

\* routes/pdf_routes.py download_pdf (the Drive mirror is best effort and
\* leaves the answer as it is)
routes_download_pdf(SS, request) ==
    IF request.edits = 0 /\ request.signatures = 0 THEN Answer(400, 0, 0)
    ELSE IF request.session_id \notin 1..Len(SS) THEN Answer(404, 0, 0)
    ELSE IF edit_file(request) # 0 THEN Answer(edit_file(request), 0, 0)
    ELSE Answer(200, request.session_id, 0)

\* routes/stats_routes.py get_pdf_versions; current_user = None stands for
\* the 401 of the get_current_user dependency
stats_get_pdf_versions(P, V, pdf_id, current_user) ==
    LET pdf == get_pdf_by_id(P, pdf_id)
    IN  IF current_user = None THEN Answer(401, 0, 0)
        ELSE IF pdf = 0 THEN Answer(404, 0, 0)
        ELSE IF P[pdf].user_id # current_user THEN Answer(403, 0, 0)
        ELSE Answer(200, pdf_id, 0)

\* get_pdf_pages without the comparison of pdf.user_id and current_user.id
stats_get_pdf_pages_any_user(P, G, pdf_id, current_user) ==
    LET pdf == get_pdf_by_id(P, pdf_id)
    IN  IF current_user = None THEN Answer(401, 0, 0)
        ELSE IF pdf = 0 THEN Answer(404, 0, 0)
        ELSE Answer(200, pdf_id, 0)

\* routes/stats_routes.py get_pdf_pages
stats_get_pdf_pages(P, G, pdf_id, current_user) ==
    LET pdf == get_pdf_by_id(P, pdf_id)
    IN  IF current_user = None THEN Answer(401, 0, 0)
        ELSE IF pdf = 0 THEN Answer(404, 0, 0)
        ELSE IF P[pdf].user_id # current_user THEN Answer(403, 0, 0)
        ELSE Answer(200, pdf_id, 0)

\* auth.py get_optional_user, given the user of the bearer token (None
\* without a header that starts with "Bearer "): with a token, jwt.decode
\* is called with settings.SECRET_KEY, auth.py imports no settings, and the
\* bare except turns the NameError into None
get_optional_user(bearer) == None

\* func.sum(PDF.file_size) over the rows listed in M, 0 for none
sum_file_size(P, M) ==
    LET f[i \in 0..Len(P)] ==
            IF i = 0 THEN 0
            ELSE f[i - 1] + (IF i \in M THEN P[i].file_size ELSE 0)
    IN  f[Len(P)]

\* the totals of get_statistics for current_user (None: of every user)
statistics(P, V, current_user) ==
    LET active == get_all_pdfs(P, current_user)
        owned == {i \in 1..Len(P) :
                     current_user # None => P[i].user_id = current_user}
    IN  [total_pdfs |-> Cardinality(active),
         total_versions |->
             Cardinality({j \in 1..Len(V) : V[j].original_pdf_id \in owned}),
         total_storage_bytes |-> sum_file_size(P, active)]

\* routes/stats_routes.py get_statistics
get_statistics(P, V, bearer) ==
    statistics(P, V, get_optional_user(bearer))

\* log entry of a GET /api/stats request: its number, the user of the
\* bearer token, the user the handler took, and the totals answered
Stats(n, bearer, current_user, total_pdfs, total_versions, total_storage_bytes) ==
    [n |-> n, bearer |-> bearer, current_user |-> current_user,
     total_pdfs |-> total_pdfs, total_versions |-> total_versions,
     total_storage_bytes |-> total_storage_bytes]

(* ------------------------------- files -------------------------------- *)
\* names of the PDF files clients upload
FileNames == {"a.pdf", "b.pdf"}
\* the part of a file name that holds no uuid
NoUuid == <<0, 0>>

\* a path: its directory and the parts its file name is formatted from
\* (prefix, index of the entry, timestamp of the clock second, the hex
\* digits taken from a uuid4, name given by the client)
Path(dir, prefix, idx, timestamp, hex, filename) ==
    [dir |-> dir, prefix |-> prefix, idx |-> idx, timestamp |-> timestamp,
     hex |-> hex, filename |-> filename]

NoPath == Path("", "", 0, 0, NoUuid, "")

\* uuid.uuid4(): the k-th one the n-th request draws; no two draws give
\* the same digits
uuid4(n, k) == <<n, k>>

\* UPLOAD_DIR / f"{timestamp}_{session_id[:8]}_{file.filename}"
upload_path(timestamp, session_id, filename) ==
    Path("uploads", "", 0, timestamp, session_id, filename)

\* OUTPUT_DIR / f"edited_{timestamp}_{original_filename}"
edited_path(timestamp, original_filename) ==
    Path("outputs", "edited", 0, timestamp, NoUuid, original_filename)

\* OUTPUT_DIR / f"temp_{timestamp}_{uuid.uuid4().hex[:8]}.pdf"
temp_path(timestamp, hex) ==
    Path("outputs", "temp", 0, timestamp, hex, ".pdf")

\* UPLOAD_DIR / f"temp_merge_{uuid.uuid4().hex[:8]}_{file.filename}"
temp_merge_path(hex, filename) ==
    Path("uploads", "temp_merge", 0, 0, hex, filename)

\* OUTPUT_DIR / f"temp_edited_{idx}_{timestamp}_{uuid.uuid4().hex[:8]}.pdf"
temp_edited_path(idx, timestamp, hex) ==
    Path("outputs", "temp_edited", idx, timestamp, hex, ".pdf")

\* OUTPUT_DIR / f"temp_edits_{idx}_{timestamp}_{uuid.uuid4().hex[:8]}.pdf"
temp_edits_path(idx, timestamp, hex) ==
    Path("outputs", "temp_edits", idx, timestamp, hex, ".pdf")

\* a PDF document: for each page the items placed on it, in order
Blank(total_pages) == [p \in 1..total_pages |-> << >>]

\* a file on disk: the document it holds and the request that wrote it
File(doc, writer) == [doc |-> doc, writer |-> writer]

exists(F, path) == path \in DOMAIN F

\* open(path, 'wb') / doc.save(path) / shutil.copy(src, path)
write(F, path, file) ==
    [q \in DOMAIN F \cup {path} |-> IF q = path THEN file ELSE F[q]]

\* os.remove of the paths that exist
remove(F, paths) ==
    [q \in DOMAIN F \ paths |-> F[q]]

\* Signature objects of a request (schemas.py); page 2 is past the end of
\* the documents of the model, "corrupt" is image data that does not decode
Signatures ==
    [page : {1, 2}, x : {10}, y : {20}, width : {30}, height : {5},
     image : {"png", "corrupt"}, type : {"Signature"}]

\* a value of the color field: a str (text holds its characters) or None
Str(text) == [str |-> TRUE, text |-> text]
NoColor == [str |-> FALSE, text |-> << >>]

\* schemas.py TextEdit.color: Optional[str] = Field("#000000")
DefaultColor == Str(<<"#", "0", "0", "0", "0", "0", "0">>)

\* TextEdit objects of a request
TextEdits ==
    [page : {0, 2}, bbox : {<<1, 2, 3, 4>>}, new_text : {"text"},
     color : {DefaultColor}, type : {"TextEdit"}]

\* the colors of the edits of the calls of apply_text_edits: None, "",
\* "#ff8000", "1a2b3c", "#fff", "red"
Colors ==
    {NoColor, Str(<< >>),
     Str(<<"#", "f", "f", "8", "0", "0", "0">>),
     Str(<<"1", "a", "2", "b", "3", "c">>),
     Str(<<"#", "f", "f", "f">>),
     Str(<<"r", "e", "d">>)}

ColorTextEdits ==
    [page : {0, 2}, bbox : {<<1, 2, 3, 4>>}, new_text : {"text"},
     color : Colors, type : {"TextEdit"}]

\* the lists of at most n elements of S
Lists(S, n) == UNION {[1..k -> S] : k \in 0..n}

\* [x.dict() for x in xs]
dicts(xs) == [i \in 1..Len(xs) |-> [xs[i] EXCEPT !.type = "dict"]]

\* fitz.Rect(sig.x, sig.y, sig.x + sig.width, sig.y + sig.height)
Rect(sig) == <<sig.x, sig.y, sig.x + sig.width, sig.y + sig.height>>

\* an exception inside the loop body of apply_signatures: sig.page on a
\* dict, doc[sig.page] past the last page, image data that does not decode
signature_raises(doc, sig) ==
    \/ sig.type = "dict"
    \/ sig.page \notin 0..(Len(doc) - 1)
    \/ sig.image = "corrupt"

\* the loop of apply_signatures: a signature that raises is skipped
insert_signatures(doc, signatures) ==
    LET f[i \in 0..Len(signatures)] ==
            IF i = 0 THEN doc
            ELSE LET sig == signatures[i]
                 IN  IF signature_raises(f[i - 1], sig) THEN f[i - 1]
                     ELSE [f[i - 1] EXCEPT ![sig.page + 1] =
                              Append(@, [rect |-> Rect(sig),
                                         image |-> sig.image])]
    IN  f[Len(signatures)]

\* apply_signatures (utils/pdf_processor.py and app.py): ok is the value
\* returned. fitz.open raises when the file is not there; doc.save raises
\* when output_path is the path the document was opened from (a save that
\* is not incremental)
apply_signatures(F, pdf_path, signatures, output_path, writer) ==
    IF Len(signatures) = 0 THEN [ok |-> TRUE, files |-> F]
    ELSE IF ~exists(F, pdf_path) THEN [ok |-> FALSE, files |-> F]
    ELSE IF output_path = pdf_path THEN [ok |-> FALSE, files |-> F]
    ELSE [ok |-> TRUE,
          files |-> write(F, output_path,
                          File(insert_signatures(F[pdf_path].doc, signatures),
                               writer))]

\* the digits int(s, 16) takes, in the order of their values (lower case)
HexDigits ==
    <<"0", "1", "2", "3", "4", "5", "6", "7", "8", "9",
      "a", "b", "c", "d", "e", "f">>

\* s.lstrip(c): s without every leading c
lstrip(s, c) ==
    LET lead == {i \in 0..Len(s) : \A j \in 1..i : s[j] = c}
        n == CHOOSE i \in lead : \A j \in lead : j <= i
    IN  SubSeq(s, n + 1, Len(s))

\* s[i:j] of Python, i and j counted from 0
slice(s, i, j) ==
    SubSeq(s, i + 1, IF j < Len(s) THEN j ELSE Len(s))

\* int(s, 16) raises ValueError: s is empty or holds a character that is
\* no hexadecimal digit
int16_raises(s) ==
    \/ Len(s) = 0
    \/ \E k \in 1..Len(s) : \A d \in 1..Len(HexDigits) : HexDigits[d] # s[k]

\* int(s, 16) of a string of hexadecimal digits
int16(s) ==
    LET value(c) == (CHOOSE d \in 1..Len(HexDigits) : HexDigits[d] = c) - 1
        f[k \in 0..Len(s)] ==
            IF k = 0 THEN 0 ELSE 16 * f[k - 1] + value(s[k])
    IN  f[Len(s)]

\* hex_color = edit.color.lstrip('#') and its three slices
hex_slices(color) ==
    LET hex_color == lstrip(color.text, "#")
    IN  <<slice(hex_color, 0, 2), slice(hex_color, 2, 4),
          slice(hex_color, 4, 6)>>

\* the color tuple of apply_text_edits, as the three numerators over 255;
\* (0, 0, 0) when edit.color is None or ""
parse_color(color) ==
    IF ~color.str \/ Len(color.text) = 0 THEN <<0, 0, 0>>
    ELSE [k \in 1..3 |-> int16(hex_slices(color)[k])]

\* the generator of the color tuple raises ValueError
color_raises(color) ==
    /\ color.str
    /\ Len(color.text) > 0
    /\ \E k \in 1..3 : int16_raises(hex_slices(color)[k])

\* an exception inside the loop of apply_text_edits
edit_raises(doc, edit) ==
    \/ edit.type = "dict"
    \/ edit.page \notin 0..(Len(doc) - 1)
    \/ color_raises(edit.color)

\* the loop of apply_text_edits, when no edit raises
insert_edits(doc, edits) ==
    LET f[i \in 0..Len(edits)] ==
            IF i = 0 THEN doc
            ELSE [f[i - 1] EXCEPT ![edits[i].page + 1] =
                     Append(@, [rect |-> edits[i].bbox,
                                image |-> edits[i].new_text,
                                color |-> parse_color(edits[i].color)])]
    IN  f[Len(edits)]

\* apply_text_edits: the first edit that raises ends the call
apply_text_edits(F, pdf_path, edits, output_path, writer) ==
    IF ~exists(F, pdf_path) THEN [ok |-> FALSE, files |-> F]
    ELSE IF \E i \in 1..Len(edits) : edit_raises(F[pdf_path].doc, edits[i])
    THEN [ok |-> FALSE, files |-> F]
    ELSE IF output_path = pdf_path THEN [ok |-> FALSE, files |-> F]
    ELSE [ok |-> TRUE,
          files |-> write(F, output_path,
                          File(insert_edits(F[pdf_path].doc, edits), writer))]

\* PDFService.apply_text_edits takes the edits as dicts: edit.get on a
\* TextEdit object raises, and so does the color tuple of an edit whose page
\* is in the document, "" included
PDFService_edit_raises(doc, edit) ==
    \/ edit.type # "dict"
    \/ /\ edit.page < Len(doc)
       /\ edit.color.str
       /\ \E k \in 1..3 : int16_raises(hex_slices(edit.color)[k])

\* the loop of PDFService.apply_text_edits, when no edit raises: an edit
\* whose page_num >= len(doc) is passed over (continue)
PDFService_insert_edits(doc, edits) ==
    LET f[i \in 0..Len(edits)] ==
            IF i = 0 THEN doc
            ELSE IF edits[i].page >= Len(doc) THEN f[i - 1]
            ELSE [f[i - 1] EXCEPT ![edits[i].page + 1] =
                     Append(@, [rect |-> edits[i].bbox,
                                image |-> edits[i].new_text,
                                color |-> IF edits[i].color.str
                                          THEN parse_color(edits[i].color)
                                          ELSE <<0, 0, 0>>])]
    IN  f[Len(edits)]

\* PDFService.apply_text_edits (services/pdf_service.py)
PDFService_apply_text_edits(F, pdf_path, edits, output_path, writer) ==
    IF ~exists(F, pdf_path) THEN [ok |-> FALSE, files |-> F]
    ELSE IF \E i \in 1..Len(edits) :
                PDFService_edit_raises(F[pdf_path].doc, edits[i])
    THEN [ok |-> FALSE, files |-> F]
    ELSE IF output_path = pdf_path THEN [ok |-> FALSE, files |-> F]
    ELSE [ok |-> TRUE,
          files |-> write(F, output_path,
                          File(PDFService_insert_edits(F[pdf_path].doc, edits),
                               writer))]

\* shutil.copy(src, dst)
copy(F, src, dst, writer) ==
    write(F, dst, File(F[src].doc, writer))

\* what a request that names files did: the handler or function, the value
\* returned (ok) or status answered, the file read, the signatures, the
\* file asked for, and the paths the request created on its way
FileOp(op, status, input, signatures, output, created) ==
    [op |-> op, status |-> status, input |-> input,
     signatures |-> signatures, output |-> output, created |-> created]

\* a call of an apply_text_edits: the function called, the number of the
\* request, the arguments and the value returned
EditCall(function, n, pdf_path, edits, output_path, ok) ==
    [function |-> function, n |-> n, pdf_path |-> pdf_path, edits |-> edits,
     output_path |-> output_path, ok |-> ok]

\* the outcome of a handler: the disk it leaves, the status it answers,
\* the stored file it wrote (NoPath: none) and the paths it created
Outcome(F, status, output, created) ==
    [files |-> F, status |-> status, output |-> output, created |-> created]

\* the signature step reading the original in the place of the file of the
\* text-edit step
signature_input_original(original_path, temp) == original_path

\* download_pdf: the value of current_input when apply_signatures is
\* called, the temp file the text edits were saved to or the original was
\* copied to
signature_input(original_path, temp) == temp

\* download_pdf of app.py and of routes/pdf_routes.py, on the disk: U holds
\* the file_path and original_filename of the sessions, n numbers the
\* request
download_pdf(F, U, request, timestamp, n) ==
    LET edits == request.edits
        signatures == request.signatures
        session == U[request.session_id]
        original_path == session.file_path
        output_path == edited_path(timestamp, session.original_filename)
        temp == temp_path(timestamp, uuid4(n, 1))
        E == apply_text_edits(F, original_path, edits, temp, n)
        F1 == IF Len(edits) > 0 THEN E.files ELSE F
        F2 == IF Len(signatures) > 0 /\ Len(edits) = 0
              THEN copy(F1, original_path, temp, n)
              ELSE F1
        S == apply_signatures(F2, signature_input(original_path, temp),
                              signatures, output_path, n)
        F3 == IF Len(signatures) > 0 THEN S.files
              ELSE write(remove(F2, {temp}), output_path, F2[temp])
    IN  IF Len(edits) = 0 /\ Len(signatures) = 0
        THEN Outcome(F, 400, NoPath, {})
        ELSE IF request.session_id \notin 1..Len(U)
        THEN Outcome(F, 404, NoPath, {})
        ELSE IF ~exists(F, original_path)
        THEN Outcome(F, 404, NoPath, {})
        ELSE IF Len(edits) > 0 /\ ~E.ok
        THEN Outcome(F, 500, NoPath, {})
        ELSE IF Len(signatures) > 0 /\ ~S.ok
        THEN Outcome(remove(F2, {temp}), 500, NoPath, {temp})
        ELSE Outcome(remove(F3, {temp}), 200, output_path,
                     {temp, output_path})

\* the finally clause of the merge handlers with os.remove left out
cleanup_skipped(F, temp_files) == F

\* the finally clause of the merge handlers: os.remove of every path of
\* temp_files that exists
cleanup(F, temp_files) ==
    remove(F, {temp_files[i] : i \in 1..Len(temp_files)})

\* the files of a merge-pdfs request: the name, and whether PdfMerger can
\* append the content
MergeFiles ==
    [filename : FileNames \cup {"notes.txt"}, appendable : BOOLEAN]

\* file.filename.endswith('.pdf')
endswith_pdf(filename) == filename \in FileNames

\* merge_pdfs of routes/pdf_routes.py; going: the disk, temp_files and the
\* status raised (0: none) after the first i files
merge_pdfs(F, merge_files, n) ==
    LET going[i \in 0..Len(merge_files)] ==
            IF i = 0 THEN [files |-> F, temp_files |-> << >>, status |-> 0]
            ELSE LET was == going[i - 1]
                     file == merge_files[i]
                     temp == temp_merge_path(uuid4(n, i), file.filename)
                 IN  IF was.status # 0 THEN was
                     ELSE [files |-> write(was.files, temp,
                                           File(Blank(1), n)),
                           temp_files |-> Append(was.temp_files, temp),
                           status |-> IF file.appendable THEN 0 ELSE 400]
        end == going[Len(merge_files)]
    IN  IF Len(merge_files) < 2
        THEN Outcome(F, 400, NoPath, {})
        ELSE IF \E i \in 1..Len(merge_files) :
                    ~endswith_pdf(merge_files[i].filename)
        THEN Outcome(F, 400, NoPath, {})
        ELSE Outcome(cleanup(end.files, end.temp_files),
                     IF end.status = 0 THEN 200 ELSE end.status,
                     NoPath,
                     DOMAIN end.files \ DOMAIN F)

\* the entries of a merge-edited-pdfs request, and whether PdfMerger can
\* append the entry's file
MergeItems ==
    [session_id : 1..(MaxUploads + 1),
     edits : Lists(TextEdits, 1),
     signatures : Lists({sig \in Signatures : sig.page = 1}, 1),
     appendable : BOOLEAN]

\* merge_edited_pdfs of routes/pdf_routes.py; the edits and signatures of
\* an entry are handed on as dicts
merge_edited_pdfs(F, U, pdfs_data, timestamp, n) ==
    LET going[idx \in 0..Len(pdfs_data)] ==
            IF idx = 0 THEN [files |-> F, temp_files |-> << >>, status |-> 0]
            ELSE
            LET was == going[idx - 1]
                pdf_info == pdfs_data[idx]
                edits == dicts(pdf_info.edits)
                signatures == dicts(pdf_info.signatures)
                original_path == U[pdf_info.session_id].file_path
                temp_edited == temp_edited_path(idx, timestamp,
                                                uuid4(n, 2 * idx - 1))
                temp_edits == temp_edits_path(idx, timestamp,
                                              uuid4(n, 2 * idx))
                temp_files ==
                    IF Len(edits) > 0
                    THEN was.temp_files \o <<temp_edited, temp_edits>>
                    ELSE Append(was.temp_files, temp_edited)
                E == apply_text_edits(was.files, original_path, edits,
                                      temp_edits, n)
                F1 == IF Len(edits) > 0 THEN E.files ELSE was.files
                current_input == IF Len(edits) > 0 THEN temp_edits
                                 ELSE original_path
                F2 == IF Len(signatures) > 0 /\ Len(edits) = 0
                      THEN copy(F1, original_path, temp_edited, n)
                      ELSE F1
                S == apply_signatures(
                         F2,
                         IF Len(edits) > 0 THEN temp_edits ELSE temp_edited,
                         signatures, temp_edited, n)
                F3 == IF Len(signatures) > 0 THEN S.files
                      ELSE copy(F2, current_input, temp_edited, n)
                stop(G, tf, status) ==
                    [files |-> G, temp_files |-> tf, status |-> status]
            IN  IF was.status # 0 THEN was
                ELSE IF pdf_info.session_id \notin 1..Len(U)
                THEN stop(was.files, was.temp_files, 404)
                ELSE IF ~exists(was.files, original_path)
                THEN stop(was.files, was.temp_files, 404)
                ELSE IF Len(edits) = 0 /\ Len(signatures) = 0
                THEN stop(was.files, was.temp_files,
                          IF pdf_info.appendable THEN 0 ELSE 500)
                ELSE IF Len(edits) > 0 /\ ~E.ok
                THEN stop(F1, temp_files, 500)
                ELSE IF Len(signatures) > 0 /\ ~S.ok
                THEN stop(F2, temp_files, 500)
                ELSE stop(F3, temp_files,
                          IF pdf_info.appendable THEN 0 ELSE 500)
        end == going[Len(pdfs_data)]
    IN  IF Len(pdfs_data) < 2
        THEN Outcome(F, 400, NoPath, {})
        ELSE Outcome(cleanup(end.files, end.temp_files),
                     IF end.status = 0 THEN 200 ELSE end.status,
                     NoPath,
                     DOMAIN end.files \ DOMAIN F)

(* ------------------------------ actions ------------------------------- *)
\* requests that may be inside create_pdf_version at the same time
Writers == {"w1", "w2"}
\* a writer that is not inside create_pdf_version
Idle == [original_pdf_id |-> 0, version_number |-> 0]

\* no cached user, no users row
NoEntry == [access_token |-> 0, refresh_token |-> None, token_expiry |-> 0,
            stripe_customer_id |-> FALSE, exists |-> FALSE]
\* the users whose JWTs the requests carry
Accounts == {"u1"}
\* what jwt.decode makes of the token of a request
Tokens == {"valid", "bad_signature", "expired"}
\* the refresh token of a token response, None when it carries none
RefreshTokens == {"refresh_token", None}

\* log entry of the last request that carried a JWT: the endpoint, what
\* jwt.decode makes of the token, the token's subject, the status
\* answered, the access token returned (0: none), whether it was
\* refreshed, and the provider's answer to a refresh (None: not asked)
Auth(op, token, user, status, access_token, refreshed, provider) ==
    [op |-> op, token |-> token, user |-> user, status |-> status,
     access_token |-> access_token, refreshed |-> refreshed,
     provider |-> provider]

\* log entry of the last subscription or payment request: the operation,
\* the kind of body a webhook request carried, the HTTP status answered (0
\* for a plain call), whether an exception was raised inside it, the
\* service call it committed, the row that call wrote and that row's user,
\* the cancel_at_period_end argument of a committed cancellation, and the
\* user's pdf_count_this_month before the request
Op(op, kind, status, raised, commit, user, row, flag, pre_count) ==
    [op |-> op, kind |-> kind, status |-> status, raised |-> raised,
     commit |-> commit, user |-> user, row |-> row, flag |-> flag,
     pre_count |-> pre_count]

\* log entry of the last document request: the handler, the caller, the
\* document or session named (0: none that exists), whether a download
\* request can be served (it carries edits or signatures and the engine
\* applies them), and the answer
Req(op, caller, target, servable, answer) ==
    [op |-> op, caller |-> caller, target |-> target, servable |-> servable,
     status |-> answer.status, returned |-> answer.returned,
     version |-> answer.version]

\* a download request that passes every check between lookup and answer
Servable(request) ==
    (request.edits > 0 \/ request.signatures > 0) /\ edit_file(request) = 0

\* the file and page on display
Shown(pdf_path, page) == [pdf_path |-> pdf_path, page |-> page]

\* PDFVisualEditor.__init__ and the initial state of the widgets;
\* zoom_level in tenths, doc = None as << >>
PDFVisualEditor ==
    [pdf_path |-> None, doc |-> << >>, current_page |-> 0, zoom_level |-> 15,
     selected_text_rects |-> << >>, replace_btn |-> "disabled",
     new_text_entry |-> ""]

PreCount(U, u) ==
    IF u = None THEN 0 ELSE U[u].pdf_count_this_month

Init ==
    /\ users = [u \in Users |-> NewUser]
    /\ subs = << >>
    /\ nops = 0
    /\ lastOp = Op("init", None, 0, FALSE, None, None, 0, FALSE, 0)
    /\ pdfs = << >>
    /\ pdf_pages = << >>
    /\ pdf_versions = << >>
    /\ SESSIONS = << >>
    /\ lastReq = Req("init", None, 0, FALSE, Answer(0, 0, 0))
    /\ pending = [w \in Writers |-> Idle]
    /\ serial = TRUE
    /\ USERS = [u \in Users |-> NoEntry]
    /\ AUTH_SESSIONS = {}
    /\ google = [u \in Users |-> NoEntry]
    /\ now = 0
    /\ issued = 0
    /\ lastAuth = Auth("init", None, None, 0, 0, FALSE, None)
    /\ files = << >>
    /\ uploads = << >>
    /\ nfile = 0
    /\ lastFile = FileOp("init", 0, NoPath, << >>, NoPath, {})
    /\ lastEdit = EditCall("init", 0, NoPath, << >>, NoPath, FALSE)
    /\ lastStats = Stats(0, None, None, 0, 0, 0)
    /\ drive_folders = {}
    /\ drive_files = {}
    /\ ndrive = 0
    /\ lastList = [user_email |-> << >>, files |-> {}]
    /\ editor = PDFVisualEditor
    /\ selected_on = Shown(None, 0)
    /\ lastReplace = [n |-> 0, pdf_path |-> None, page |-> 0, rects |-> << >>]
    /\ nui = 0

\* every request counts against the budget of the behaviour
Handle ==
    /\ nops < MaxOps
    /\ nops' = nops + 1
    /\ UNCHANGED auxvars

IncrementPdfCount(u) ==
    /\ Handle
    /\ users[u].pdf_count_this_month < MaxCount
    /\ users' = [users EXCEPT ![u] = increment_pdf_count(@)]
    /\ lastOp' = Op("increment_pdf_count", None, 0, FALSE, None, u, 0, FALSE,
                    PreCount(users, u))
    /\ UNCHANGED <<subs, docvars>>

ResetMonthlyCount(u) ==
    /\ Handle
    /\ users' = [users EXCEPT ![u] = reset_monthly_count(@)]
    /\ lastOp' = Op("reset_monthly_count", None, 0, FALSE, None, u, 0, FALSE,
                    PreCount(users, u))
    /\ UNCHANGED <<subs, docvars>>

StripeWebhook(body) ==
    LET r == stripe_webhook(subs, users, body)
        u == IF r.row # 0 THEN r.subs[r.row].user_id ELSE None
    IN  /\ Handle
        /\ Len(r.subs) <= MaxSubs
        /\ subs' = r.subs
        /\ users' = r.users
        /\ lastOp' = Op("stripe_webhook", body.kind, r.status, r.raised,
                        r.commit, u, r.row, FALSE, PreCount(users, u))
        /\ UNCHANGED docvars

\* POST /api/subscription/cancel of routes/subscription_routes.py for the
\* user of a valid token; stripe_ok is the outcome of the processor call
CancelSubscription(u, cancel_at_period_end, stripe_ok) ==
    LET subscription == get_user_active_subscription(subs, u)
        r == cancel_subscription(subs, users, u, cancel_at_period_end)
    IN  /\ Handle
        /\ UNCHANGED docvars
        /\ IF subscription = 0
           THEN /\ lastOp' = Op("cancel", None, 404, TRUE, None, None, 0, FALSE, 0)
                /\ UNCHANGED <<users, subs>>
           ELSE IF subs[subscription].stripe_subscription_id # None /\ ~stripe_ok
           THEN /\ lastOp' = Op("cancel", None, 500, TRUE, None, None, 0, FALSE, 0)
                /\ UNCHANGED <<users, subs>>
           ELSE /\ subs' = r.subs
                /\ users' = r.users
                /\ lastOp' = Op("cancel", None, r.status, r.status # 200,
                                "cancel_subscription", u, r.row,
                                cancel_at_period_end, PreCount(users, u))

\* a direct call of SubscriptionService.update_subscription_from_stripe
\* (the webhook handlers pass every local status but "expired")
UpdateSubscriptionFromStripe(sid, status, current_period_end) ==
    LET r == update_subscription_from_stripe(subs, users, sid, status,
                                             current_period_end)
        u == IF r.row # 0 THEN subs[r.row].user_id ELSE None
    IN  /\ Handle
        /\ UNCHANGED docvars
        /\ subs' = r.subs
        /\ users' = r.users
        /\ lastOp' = Op("update", None, 0, FALSE,
                        IF r.row # 0 THEN "update_subscription_from_stripe"
                        ELSE None,
                        u, r.row, FALSE, PreCount(users, u))

(* -------------------------- document actions -------------------------- *)
HandleDoc ==
    /\ nops < MaxReqs
    /\ nops' = nops + 1
    /\ UNCHANGED auxvars

\* a direct call of crud.create_pdf for a user's document (the upload
\* handlers of app.py pass no user_id)
CreatePdf(user_id, total_pages) ==
    /\ HandleDoc
    /\ Len(pdfs) < MaxPdfs
    /\ pdfs' = create_pdf(pdfs, user_id, total_pages)
    /\ lastReq' = Req("create_pdf", user_id, Len(pdfs) + 1, FALSE,
                      Answer(0, 0, 0))
    /\ UNCHANGED <<users, subvars, pdf_pages, pdf_versions, SESSIONS>>

AppUpload(caller, file, total_pages, rendered) ==
    LET r == app_upload_pdf(pdfs, pdf_pages, file, total_pages, rendered)
    IN  /\ HandleDoc
        /\ rendered <= total_pages
        /\ Len(r.pdfs) <= MaxPdfs
        /\ pdfs' = r.pdfs
        /\ pdf_pages' = r.pages
        /\ lastReq' = Req("app_upload", caller, 0, FALSE, r.answer)
        /\ UNCHANGED <<users, subvars, pdf_versions, SESSIONS>>

RoutesUpload(caller, file, total_pages, rendered) ==
    LET r == routes_upload_pdf(SESSIONS, file, total_pages, rendered, caller)
    IN  /\ HandleDoc
        /\ rendered <= total_pages
        /\ Len(r.sessions) <= MaxSessions
        /\ SESSIONS' = r.sessions
        /\ lastReq' = Req("routes_upload", caller, 0, FALSE, r.answer)
        /\ UNCHANGED <<users, subvars, pdfs, pdf_pages, pdf_versions>>

AppDownload(caller, request) ==
    LET r == app_download_pdf(pdfs, pdf_versions, request)
    IN  /\ HandleDoc
        /\ Len(r.versions) <= MaxVersions
        /\ pdf_versions' = r.versions
        /\ lastReq' = Req("app_download", caller,
                          get_pdf_by_session(pdfs, request.session_id),
                          Servable(request), r.answer)
        /\ UNCHANGED <<users, subvars, pdfs, pdf_pages, SESSIONS>>

RoutesDownload(caller, request) ==
    /\ HandleDoc
    /\ lastReq' = Req("routes_download", caller,
                      IF request.session_id \in 1..Len(SESSIONS)
                      THEN request.session_id ELSE 0,
                      Servable(request),
                      routes_download_pdf(SESSIONS, request))
    /\ UNCHANGED <<users, subvars, pdfs, pdf_pages, pdf_versions, SESSIONS>>

\* app.py delete_pdf (soft delete)
DeletePdf(pdf_id) ==
    /\ HandleDoc
    /\ pdfs' = delete_pdf(pdfs, pdf_id)
    /\ lastReq' = Req("delete_pdf", None, pdf_id, FALSE,
                      Answer(IF get_pdf_by_id(pdfs, pdf_id) # 0 THEN 200 ELSE 404,
                             0, 0))
    /\ UNCHANGED <<users, subvars, pdf_pages, pdf_versions, SESSIONS>>

GetPdfVersions(caller, pdf_id) ==
    /\ HandleDoc
    /\ lastReq' = Req("get_pdf_versions", caller, pdf_id, FALSE,
                      stats_get_pdf_versions(pdfs, pdf_versions, pdf_id, caller))
    /\ UNCHANGED <<users, subvars, pdfs, pdf_pages, pdf_versions, SESSIONS>>

GetPdfPages(caller, pdf_id) ==
    /\ HandleDoc
    /\ lastReq' = Req("get_pdf_pages", caller, pdf_id, FALSE,
                      stats_get_pdf_pages(pdfs, pdf_pages, pdf_id, caller))
    /\ UNCHANGED <<users, subvars, pdfs, pdf_pages, pdf_versions, SESSIONS>>

\* GET /api/stats; bearer is the user of the request's bearer token, None
\* for a request with no token or one that does not verify
GetStatistics(bearer) ==
    LET r == get_statistics(pdfs, pdf_versions, bearer)
    IN  /\ nops < MaxReqs
        /\ nops' = nops + 1
        /\ lastStats' = Stats(nops + 1, bearer, get_optional_user(bearer),
                              r.total_pdfs, r.total_versions,
                              r.total_storage_bytes)
        /\ lastReq' = Req("get_statistics", bearer, 0, FALSE, Answer(200, 0, 0))
        /\ UNCHANGED <<users, subvars, pdfs, pdf_pages, pdf_versions, SESSIONS,
                       vervars, authvars, filevars, drivevars, editorvars>>

DocNext ==
    \/ \E u \in Users, n \in PageCounts : CreatePdf(u, n)
    \/ \E c \in Callers, f \in {"pdf", "not_pdf", "unreadable"},
          n \in PageCounts, k \in 0..2 : AppUpload(c, f, n, k)
    \/ \E c \in Callers, f \in {"pdf", "not_pdf", "unreadable"},
          n \in PageCounts, k \in 0..2 : RoutesUpload(c, f, n, k)
    \/ \E c \in Callers, request \in DownloadRequests : AppDownload(c, request)
    \/ \E c \in Callers, request \in DownloadRequests : RoutesDownload(c, request)
    \/ \E id \in 1..(MaxPdfs + 1) : DeletePdf(id)
    \/ \E c \in Callers, id \in 1..(MaxPdfs + 1) : GetPdfVersions(c, id)
    \/ \E c \in Callers, id \in 1..(MaxPdfs + 1) : GetPdfPages(c, id)
    \/ \E c \in Accounts \cup {None} : GetStatistics(c)

DocSpec == Init /\ [][DocNext]_vars

(* ------------------------ requests with a JWT ------------------------- *)
\* verify_token of routes/auth_routes.py and routes/subscription_routes.py,
\* and the except clauses of AuthService.get_user_from_token: 0 when the
\* payload is returned, else the status of the HTTPException raised
verify_token(token) ==
    IF token = "valid" THEN 0 ELSE 401

\* what the first statements of /me and /drive-token leave in USERS: the
\* cached user, loaded from the users row when the cache has none
load_user(C, G, u) ==
    IF C[u].exists THEN C
    ELSE [C EXCEPT ![u] = [G[u] EXCEPT !.stripe_customer_id = FALSE]]

AuthUnchanged ==
    UNCHANGED <<users, subvars, nops, docvars, vervars, filevars, statvars,
                drivevars, editorvars>>

\* the clock of the model passes the expiry of the tokens issued so far
Tick ==
    /\ now < MaxTime
    /\ now' = now + 1
    /\ UNCHANGED <<USERS, google, issued, lastAuth>>
    /\ AuthUnchanged
    /\ UNCHANGED AUTH_SESSIONS

\* the server process starts again: USERS = {} and SESSIONS = {} at module
\* level
Restart ==
    /\ \E u \in Users : USERS[u].exists
    /\ USERS' = [u \in Users |-> NoEntry]
    /\ AUTH_SESSIONS' = {}
    /\ UNCHANGED <<google, now, issued, lastAuth>>
    /\ AuthUnchanged

\* GET /api/auth/google/callback for the Google account u; refresh_token
\* is the one the token response carries
GoogleCallback(u, refresh_token) ==
    LET access_token == issued + 1
        db_user == IF ~google[u].exists
                   THEN [access_token |-> access_token,
                         refresh_token |-> refresh_token,
                         token_expiry |-> now + 1,
                         stripe_customer_id |-> FALSE, exists |-> TRUE]
                   ELSE [google[u] EXCEPT
                            !.access_token = access_token,
                            !.refresh_token =
                                IF refresh_token # None THEN refresh_token ELSE @,
                            !.token_expiry = now + 1]
    IN  /\ issued < MaxTokens
        /\ issued' = access_token
        /\ google' = [google EXCEPT ![u] = db_user]
        /\ USERS' = [USERS EXCEPT ![u] =
                        [access_token |-> access_token,
                         refresh_token |-> refresh_token,
                         token_expiry |-> now + 1,
                         stripe_customer_id |-> FALSE, exists |-> TRUE]]
        /\ lastAuth' = Auth("google_callback", None, u, 307, 0, FALSE, None)
        /\ AUTH_SESSIONS' = AUTH_SESSIONS \cup {u}
        /\ UNCHANGED now
        /\ AuthUnchanged

\* GET /api/auth/drive-token; provider is the identity provider's answer
\* to a refresh request
GetDriveToken(token, u, provider) ==
    LET C == load_user(USERS, google, u)
        user == C[u]
        new_access_token == issued + 1
    IN  /\ UNCHANGED now
        /\ AuthUnchanged
        /\ UNCHANGED AUTH_SESSIONS
        /\ IF verify_token(token) # 0
           THEN /\ lastAuth' = Auth("drive_token", token, None, 401, 0, FALSE, None)
                /\ UNCHANGED <<USERS, google, issued>>
           ELSE IF ~USERS[u].exists /\ ~google[u].exists
           THEN /\ lastAuth' = Auth("drive_token", token, u, 404, 0, FALSE, None)
                /\ UNCHANGED <<USERS, google, issued>>
           ELSE IF now < user.token_expiry
           THEN /\ lastAuth' = Auth("drive_token", token, u, 200,
                                    user.access_token, FALSE, None)
                /\ USERS' = C
                /\ UNCHANGED <<google, issued>>
           ELSE IF user.refresh_token = None
           THEN /\ lastAuth' = Auth("drive_token", token, u, 401, 0, FALSE, None)
                /\ USERS' = C
                /\ UNCHANGED <<google, issued>>
           ELSE IF provider # "ok"
           THEN /\ lastAuth' = Auth("drive_token", token, u, 401, 0, FALSE,
                                    provider)
                /\ USERS' = C
                /\ UNCHANGED <<google, issued>>
           ELSE /\ issued < MaxTokens
                /\ issued' = new_access_token
                /\ USERS' = [C EXCEPT ![u].access_token = new_access_token,
                                      ![u].token_expiry = now + 1]
                /\ google' = IF google[u].exists
                             THEN [google EXCEPT
                                      ![u].access_token = new_access_token,
                                      ![u].token_expiry = now + 1]
                             ELSE google
                /\ lastAuth' = Auth("drive_token", token, u, 200,
                                    new_access_token, TRUE, provider)

\* GET /api/auth/me
Me(token, u) ==
    /\ UNCHANGED <<google, now, issued>>
    /\ AuthUnchanged
    /\ UNCHANGED AUTH_SESSIONS
    /\ IF verify_token(token) # 0
       THEN /\ lastAuth' = Auth("me", token, None, 401, 0, FALSE, None)
            /\ UNCHANGED USERS
       ELSE IF ~USERS[u].exists /\ ~google[u].exists
       THEN /\ lastAuth' = Auth("me", token, u, 404, 0, FALSE, None)
            /\ UNCHANGED USERS
       ELSE /\ lastAuth' = Auth("me", token, u, 200, 0, FALSE, None)
            /\ USERS' = load_user(USERS, google, u)

\* GET /api/auth/validate
Validate(token, u) ==
    /\ UNCHANGED <<USERS, google, now, issued>>
    /\ AuthUnchanged
    /\ UNCHANGED AUTH_SESSIONS
    /\ lastAuth' =
          IF verify_token(token) # 0
          THEN Auth("validate", token, None, 401, 0, FALSE, None)
          ELSE IF ~USERS[u].exists
          THEN Auth("validate", token, u, 404, 0, FALSE, None)
          ELSE Auth("validate", token, u, 200, 0, FALSE, None)

\* POST /api/auth/logout: the entry of the token is deleted, the JWT itself
\* stays valid until it expires
Logout(token, u) ==
    /\ UNCHANGED <<USERS, google, now, issued>>
    /\ AuthUnchanged
    /\ AUTH_SESSIONS' = IF verify_token(token) # 0 THEN AUTH_SESSIONS
                        ELSE AUTH_SESSIONS \ {u}
    /\ lastAuth' = Auth("logout", token,
                        IF verify_token(token) # 0 THEN None ELSE u,
                        200, 0, FALSE, None)

\* GET /api/subscription/my-subscription
MySubscription(token, u) ==
    /\ UNCHANGED <<USERS, google, now, issued>>
    /\ AuthUnchanged
    /\ UNCHANGED AUTH_SESSIONS
    /\ lastAuth' =
          IF verify_token(token) # 0
          THEN Auth("my_subscription", token, None, 401, 0, FALSE, None)
          ELSE IF ~google[u].exists
          THEN Auth("my_subscription", token, u, 404, 0, FALSE, None)
          ELSE IF Cardinality(ActiveRows(subs, u)) > 1
          THEN Auth("my_subscription", token, u, 500, 0, FALSE, None)
          ELSE Auth("my_subscription", token, u, 200, 0, FALSE, None)

\* POST /api/subscription/create-checkout; configured: the plan has a
\* stripe_price_id; stripe: what the payment processor does with the calls
CreateCheckout(token, u, plan_name, configured, stripe) ==
    /\ UNCHANGED <<USERS, now, issued>>
    /\ AuthUnchanged
    /\ UNCHANGED AUTH_SESSIONS
    /\ IF verify_token(token) # 0
       THEN /\ lastAuth' = Auth("create_checkout", token, None, 401, 0, FALSE, None)
            /\ UNCHANGED google
       ELSE IF ~google[u].exists \/ get_plan_by_name(plan_name) = None
       THEN /\ lastAuth' = Auth("create_checkout", token, u, 404, 0, FALSE, None)
            /\ UNCHANGED google
       ELSE IF ~configured
       THEN /\ lastAuth' = Auth("create_checkout", token, u, 400, 0, FALSE, None)
            /\ UNCHANGED google
       ELSE IF ~google[u].stripe_customer_id /\ stripe = "customer_fails"
       THEN /\ lastAuth' = Auth("create_checkout", token, u, 500, 0, FALSE, None)
            /\ UNCHANGED google
       ELSE /\ google' = [google EXCEPT ![u].stripe_customer_id = TRUE]
            /\ lastAuth' = Auth("create_checkout", token, u,
                                IF stripe = "checkout_fails" THEN 500 ELSE 200,
                                0, FALSE, None)

\* POST /api/subscription/cancel with the token it carries
CancelRoute(token, u, cancel_at_period_end, stripe_ok) ==
    IF verify_token(token) # 0
    THEN /\ lastAuth' = Auth("cancel", token, None, 401, 0, FALSE, None)
         /\ UNCHANGED <<USERS, google, now, issued>>
         /\ AuthUnchanged
         /\ UNCHANGED AUTH_SESSIONS
    ELSE IF ~google[u].exists
    THEN /\ lastAuth' = Auth("cancel", token, u, 404, 0, FALSE, None)
         /\ UNCHANGED <<USERS, google, now, issued>>
         /\ AuthUnchanged
         /\ UNCHANGED AUTH_SESSIONS
    ELSE CancelSubscription(u, cancel_at_period_end, stripe_ok)

\* GET /api/subscription/usage: its except clause turns every exception,
\* the HTTPException of get_current_user included, into a 500
Usage(token, u) ==
    /\ UNCHANGED <<USERS, google, now, issued>>
    /\ AuthUnchanged
    /\ UNCHANGED AUTH_SESSIONS
    /\ lastAuth' =
          IF verify_token(token) # 0
          THEN Auth("usage", token, None, 500, 0, FALSE, None)
          ELSE IF ~google[u].exists
          THEN Auth("usage", token, u, 500, 0, FALSE, None)
          ELSE Auth("usage", token, u, 200, 0, FALSE, None)

AuthNext ==
    \/ Tick
    \/ Restart
    \/ \E u \in Accounts, r \in RefreshTokens : GoogleCallback(u, r)
    \/ \E t \in Tokens, u \in Accounts, p \in {"ok", "rejected"} :
            GetDriveToken(t, u, p)
    \/ \E t \in Tokens, u \in Accounts : Me(t, u)
    \/ \E t \in Tokens, u \in Accounts : Validate(t, u)
    \/ \E t \in Tokens, u \in Accounts : Logout(t, u)
    \/ \E t \in Tokens, u \in Accounts : MySubscription(t, u)
    \/ \E t \in Tokens, u \in Accounts, pn \in {"basic", "gold"},
          c \in BOOLEAN, st \in {"ok", "customer_fails", "checkout_fails"} :
            CreateCheckout(t, u, pn, c, st)
    \/ \E t \in Tokens, u \in Accounts, f \in BOOLEAN, ok \in BOOLEAN :
            CancelRoute(t, u, f, ok)
    \/ \E t \in Tokens, u \in Accounts : Usage(t, u)

AuthSpec == Init /\ [][AuthNext]_vars

(* -------------------- create_pdf_version, step by step ----------------- *)
\* the first half of create_pdf_version in a download of an active
\* document: the writer reads the last version number
ReadLastVersion(w, original_pdf_id) ==
    /\ pending[w] = Idle
    /\ get_pdf_by_id(pdfs, original_pdf_id) # 0
    /\ pending' = [pending EXCEPT ![w] =
                      [original_pdf_id |-> original_pdf_id,
                       version_number |->
                           next_version_number(pdf_versions, original_pdf_id)]]
    /\ serial' = (serial /\ \A v \in Writers : pending[v] = Idle)
    /\ UNCHANGED <<users, subvars, nops, pdfs, pdf_pages, pdf_versions,
                   SESSIONS, lastReq, authvars, filevars, statvars,
                   drivevars, editorvars>>

\* the second half: the writer inserts the row and commits
AddVersion(w) ==
    /\ pending[w] # Idle
    /\ Len(pdf_versions) < MaxVersions
    /\ pdf_versions' = add_version(pdf_versions, pending[w].original_pdf_id,
                                   pending[w].version_number)
    /\ pending' = [pending EXCEPT ![w] = Idle]
    /\ UNCHANGED <<users, subvars, nops, pdfs, pdf_pages, SESSIONS, lastReq,
                   serial, authvars, filevars, statvars, drivevars,
                   editorvars>>

VersionNext ==
    \/ \E u \in Users, n \in PageCounts : CreatePdf(u, n)
    \/ \E w \in Writers, id \in 1..MaxPdfs : ReadLastVersion(w, id)
    \/ \E w \in Writers : AddVersion(w)

VersionSpec == Init /\ [][VersionNext]_vars

(* --------------------------- monthly quota ---------------------------- *)
\* user.increment_pdf_count() as often as the caller asks for it
CountPdf(u) ==
    /\ users[u].pdf_count_this_month < MaxQuota
    /\ users' = [users EXCEPT ![u] = increment_pdf_count(@)]
    /\ lastOp' = Op("increment_pdf_count", None, 0, FALSE, None, u, 0, FALSE,
                    PreCount(users, u))
    /\ UNCHANGED <<subs, nops, docvars, auxvars>>

\* user.reset_monthly_count() of the monthly job
ResetCount(u) ==
    /\ users' = [users EXCEPT ![u] = reset_monthly_count(@)]
    /\ lastOp' = Op("reset_monthly_count", None, 0, FALSE, None, u, 0, FALSE,
                    PreCount(users, u))
    /\ UNCHANGED <<subs, nops, docvars, auxvars>>

\* SubscriptionService.create_subscription(db, user_id, plan_id) called
\* without an external subscription id
CreateSubscription(u, pid) ==
    LET r == create_subscription(subs, users, u, pid, None)
    IN  /\ Len(subs) < MaxSubs
        /\ subs' = r.subs
        /\ users' = r.users
        /\ lastOp' = Op("create_subscription", None, 0, ~r.ok,
                        IF r.ok THEN "create_subscription" ELSE None,
                        u, r.row, FALSE, PreCount(users, u))
        /\ UNCHANGED <<nops, docvars, auxvars>>

QuotaNext ==
    \/ \E u \in Users : CountPdf(u)
    \/ \E u \in Users : ResetCount(u)
    \/ \E u \in Users, pid \in {"plan_basic", "plan_pro"} :
            CreateSubscription(u, pid)

QuotaSpec == Init /\ [][QuotaNext]_vars

(* --------------------------- file requests ---------------------------- *)
\* every request that names files counts against the budget
HandleFile ==
    /\ nfile < MaxFileOps
    /\ nfile' = nfile + 1
    /\ UNCHANGED <<users, subvars, nops, docvars, vervars, authvars, statvars,
                   drivevars, editorvars>>

\* upload_pdf, on the disk: the file is written under UPLOAD_DIR and the
\* session records its path and original name
UploadFile(filename, total_pages) ==
    LET session_id == uuid4(nfile + 1, 1)
        file_path == upload_path(now, session_id, filename)
    IN  /\ HandleFile
        /\ Len(uploads) < MaxUploads
        /\ files' = write(files, file_path,
                          File(Blank(total_pages), nfile + 1))
        /\ uploads' = Append(uploads, [file_path |-> file_path,
                                       original_filename |-> filename])
        /\ lastFile' = FileOp("upload_pdf", 200, NoPath, << >>, file_path,
                              {file_path})
        /\ UNCHANGED lastEdit

\* download_pdf, on the disk; lastEdit records the call of apply_text_edits
\* the request makes
DownloadFile(request) ==
    LET r == download_pdf(files, uploads, request, now, nfile + 1)
        found == /\ request.session_id \in 1..Len(uploads)
                 /\ exists(files, uploads[request.session_id].file_path)
        original_path == IF found THEN uploads[request.session_id].file_path
                         ELSE NoPath
        temp == temp_path(now, uuid4(nfile + 1, 1))
    IN  /\ HandleFile
        /\ files' = r.files
        /\ lastFile' = FileOp("download_pdf", r.status, original_path,
                              request.signatures, r.output, r.created)
        /\ lastEdit' =
              IF found /\ Len(request.edits) > 0
              THEN EditCall("apply_text_edits", nfile + 1, original_path,
                            request.edits, temp,
                            apply_text_edits(files, original_path,
                                             request.edits, temp,
                                             nfile + 1).ok)
              ELSE lastEdit
        /\ UNCHANGED uploads

\* a path no file is stored under
MissingPath == temp_path(0, NoUuid)

\* a call of apply_signatures on the stored file of a session (0: on a
\* path where no file is); in_place: output_path is the path the source is
\* read from, as merge_edited_pdfs calls it, else the edited output, as
\* download_pdf calls it
ApplySignatures(session_id, signatures, in_place) ==
    LET pdf_path == IF session_id \in 1..Len(uploads)
                    THEN uploads[session_id].file_path
                    ELSE MissingPath
        output_path == IF in_place THEN pdf_path
                       ELSE edited_path(now, pdf_path.filename)
        r == apply_signatures(files, pdf_path, signatures, output_path,
                              nfile + 1)
    IN  /\ session_id <= Len(uploads)
        /\ HandleFile
        /\ files' = r.files
        /\ lastFile' = FileOp("apply_signatures", r.ok, pdf_path, signatures,
                              output_path, DOMAIN r.files \ DOMAIN files)
        /\ UNCHANGED <<uploads, lastEdit>>

\* a call of apply_text_edits (utils/pdf_processor.py, app.py) on the
\* stored file of a session, with the output path download_pdf gives it
ApplyTextEdits(session_id, edits) ==
    LET pdf_path == uploads[session_id].file_path
        output_path == temp_path(now, uuid4(nfile + 1, 1))
        r == apply_text_edits(files, pdf_path, edits, output_path, nfile + 1)
    IN  /\ session_id <= Len(uploads)
        /\ nfile < MaxFileOps
        /\ nfile' = nfile + 1
        /\ files' = r.files
        /\ lastEdit' = EditCall("apply_text_edits", nfile + 1, pdf_path, edits,
                                output_path, r.ok)
        /\ UNCHANGED <<users, subvars, nops, docvars, vervars, authvars, statvars,
                       drivevars, editorvars,
                       uploads, lastFile>>

\* a call of PDFService.apply_text_edits on the stored file of a session,
\* with the edits as dicts
PDFServiceApplyTextEdits(session_id, edits) ==
    LET pdf_path == uploads[session_id].file_path
        output_path == temp_path(now, uuid4(nfile + 1, 1))
        r == PDFService_apply_text_edits(files, pdf_path, dicts(edits),
                                         output_path, nfile + 1)
    IN  /\ session_id <= Len(uploads)
        /\ nfile < MaxFileOps
        /\ nfile' = nfile + 1
        /\ files' = r.files
        /\ lastEdit' = EditCall("PDFService.apply_text_edits", nfile + 1,
                                pdf_path, dicts(edits), output_path, r.ok)
        /\ UNCHANGED <<users, subvars, nops, docvars, vervars, authvars, statvars,
                       drivevars, editorvars,
                       uploads, lastFile>>

\* POST /api/merge-pdfs
MergePdfs(merge_files) ==
    LET r == merge_pdfs(files, merge_files, nfile + 1)
    IN  /\ HandleFile
        /\ files' = r.files
        /\ lastFile' = FileOp("merge_pdfs", r.status, NoPath, << >>, NoPath,
                              r.created)
        /\ UNCHANGED <<uploads, lastEdit>>

\* POST /api/merge-edited-pdfs
MergeEditedPdfs(pdfs_data) ==
    LET r == merge_edited_pdfs(files, uploads, pdfs_data, now, nfile + 1)
    IN  /\ HandleFile
        /\ files' = r.files
        /\ lastFile' = FileOp("merge_edited_pdfs", r.status, NoPath, << >>,
                              NoPath, r.created)
        /\ UNCHANGED <<uploads, lastEdit>>

\* the download requests that name files
FileRequests ==
    [session_id : 1..(MaxUploads + 1),
     edits : Lists(TextEdits, 1),
     signatures : Lists({sig \in Signatures : sig.image = "png"}, 1)]

\* uploads and downloads, within one clock second or across two
PathNext ==
    \/ Tick
    \/ \E filename \in FileNames, n \in PageCounts : UploadFile(filename, n)
    \/ \E request \in FileRequests : DownloadFile(request)

PathSpec == Init /\ [][PathNext]_vars

\* calls of apply_signatures on the stored files
SigNext ==
    \/ \E filename \in FileNames, n \in PageCounts : UploadFile(filename, n)
    \/ \E session_id \in 0..MaxUploads,
          signatures \in Lists(Signatures, MaxSigs), in_place \in BOOLEAN :
            ApplySignatures(session_id, signatures, in_place)

SigSpec == Init /\ [][SigNext]_vars

\* merge requests over the stored sessions
MergeNext ==
    \/ \E filename \in FileNames, n \in PageCounts : UploadFile(filename, n)
    \/ \E merge_files \in Lists(MergeFiles, 2) : MergePdfs(merge_files)
    \/ \E pdfs_data \in Lists(MergeItems, 2) : MergeEditedPdfs(pdfs_data)

MergeSpec == Init /\ [][MergeNext]_vars

\* calls of the two apply_text_edits on the stored files
EditNext ==
    \/ \E filename \in FileNames, n \in PageCounts : UploadFile(filename, n)
    \/ \E session_id \in 1..MaxUploads, edits \in Lists(ColorTextEdits, MaxEdits) :
            ApplyTextEdits(session_id, edits)
    \/ \E session_id \in 1..MaxUploads, edits \in Lists(ColorTextEdits, MaxEdits) :
            PDFServiceApplyTextEdits(session_id, edits)

EditSpec == Init /\ [][EditNext]_vars

(* ---------------------------- Google Drive ----------------------------- *)
\* the characters of the local part of an address, after its first letter
EmailChars == {"a", ".", "_"}

\* email addresses, as the sequences of their characters: a local part
\* that starts with a letter, then "@x"
Emails ==
    {<<"a">> \o rest \o <<"@", "x">> : rest \in Lists(EmailChars, MaxLocalLen - 1)}

\* s.replace(old, new) for a character old and a string new
replace(s, old, new) ==
    LET f[i \in 0..Len(s)] ==
            IF i = 0 THEN << >>
            ELSE f[i - 1] \o (IF s[i] = old THEN new ELSE <<s[i]>>)
    IN  f[Len(s)]

\* get_or_create_user_folder:
\* folder_name = user_email.replace('@', '_at_').replace('.', '_')
folder_name(user_email) ==
    replace(replace(user_email, "@", <<"_", "a", "t", "_">>), ".", <<"_">>)

\* get_or_create_user_folder: the folders on the Drive afterwards; the
\* folder of that name is the user's folder, created when there is none
get_or_create_user_folder(folders, user_email) ==
    folders \cup {folder_name(user_email)}

\* the folders and files after upload_to_drive; n numbers the file
upload_to_drive(folders, drive, user_email, n) ==
    [folders |-> get_or_create_user_folder(folders, user_email),
     files |-> drive \cup {[parent |-> folder_name(user_email),
                            user_email |-> user_email, n |-> n]}]

\* list_user_files: the files whose parent is the user's folder
list_user_files(folders, drive, user_email) ==
    [folders |-> get_or_create_user_folder(folders, user_email),
     files |-> {file \in drive : file.parent = folder_name(user_email)}]

DriveUnchanged ==
    UNCHANGED <<users, subvars, nops, docvars, vervars, authvars, filevars,
                statvars, editorvars>>

\* upload_to_drive for a user; service: get_drive_service returned one
UploadToDrive(user_email, service) ==
    LET r == upload_to_drive(drive_folders, drive_files, user_email, ndrive + 1)
    IN  /\ ndrive < MaxDriveOps
        /\ ndrive' = ndrive + 1
        /\ drive_folders' = IF service THEN r.folders ELSE drive_folders
        /\ drive_files' = IF service THEN r.files ELSE drive_files
        /\ UNCHANGED lastList
        /\ DriveUnchanged

\* list_user_files for a user: [] without a service
ListUserFiles(user_email, service) ==
    LET r == list_user_files(drive_folders, drive_files, user_email)
    IN  /\ ndrive < MaxDriveOps
        /\ ndrive' = ndrive + 1
        /\ drive_folders' = IF service THEN r.folders ELSE drive_folders
        /\ lastList' = [user_email |-> user_email,
                        files |-> IF service THEN r.files ELSE {}]
        /\ UNCHANGED drive_files
        /\ DriveUnchanged

DriveNext ==
    \/ \E user_email \in Emails, service \in BOOLEAN :
            UploadToDrive(user_email, service)
    \/ \E user_email \in Emails, service \in BOOLEAN :
            ListUserFiles(user_email, service)

DriveSpec == Init /\ [][DriveNext]_vars

(* --------------------------- visual editor ---------------------------- *)
\* the files the dialog of open_pdf offers, each of two pages
EditorFiles == {"a.pdf", "b.pdf"}
EditorPages == 2

\* the bbox of the one text span of a page
span_bbox(page) == <<10, 10 + 20 * page, 50, 20 + 20 * page>>

\* fitz.open(file_path): for every page the redactions and texts put on it
Opened == [p \in 1..EditorPages |-> << >>]

\* a rect covers the span of a page: the redaction removes the span
redacted(items, bbox) ==
    \E k \in 1..Len(items) : items[k].kind = "redact" /\ items[k].rect = bbox

\* on_canvas_click: the span of the page at canvas_x / zoom_level,
\* canvas_y / zoom_level, << >> when there is none
span_at(items, page, zoom_level, canvas_x, canvas_y) ==
    LET bbox == span_bbox(page)
    IN  IF /\ ~redacted(items, bbox)
           /\ bbox[1] * zoom_level <= 10 * canvas_x
           /\ 10 * canvas_x <= bbox[3] * zoom_level
           /\ bbox[2] * zoom_level <= 10 * canvas_y
           /\ 10 * canvas_y <= bbox[4] * zoom_level
        THEN <<bbox>>
        ELSE << >>

\* replace_selected: the page after the redactions and insert_text
replace_on_page(items, rects, new_text) ==
    LET f[k \in 0..Len(rects)] ==
            IF k = 0 THEN items
            ELSE Append(f[k - 1], [kind |-> "redact", rect |-> rects[k]])
    IN  Append(f[Len(rects)],
               [kind |-> "text", rect |-> rects[1], text |-> new_text])

EditorEvent ==
    /\ nui < MaxEvents
    /\ nui' = nui + 1
    /\ UNCHANGED <<users, subvars, nops, docvars, vervars, authvars, filevars,
                   statvars, drivevars>>

\* open_pdf with the file chosen in the dialog
OpenPdf(file_path) ==
    /\ EditorEvent
    /\ editor' = [editor EXCEPT !.pdf_path = file_path, !.doc = Opened,
                                !.current_page = 0]
    /\ UNCHANGED <<selected_on, lastReplace>>

\* on_canvas_click at a point of the canvas
OnCanvasClick(canvas_x, canvas_y) ==
    LET span == IF editor.doc = << >> THEN << >>
                ELSE span_at(editor.doc[editor.current_page + 1],
                             editor.current_page, editor.zoom_level,
                             canvas_x, canvas_y)
    IN  /\ EditorEvent
        /\ IF span = << >>
           THEN UNCHANGED <<editor, selected_on>>
           ELSE /\ editor' = [editor EXCEPT !.selected_text_rects = span,
                                            !.replace_btn = "normal"]
                /\ selected_on' = Shown(editor.pdf_path, editor.current_page)
        /\ UNCHANGED lastReplace

\* the user types into new_text_entry
TypeNewText(text) ==
    /\ EditorEvent
    /\ editor' = [editor EXCEPT !.new_text_entry = text]
    /\ UNCHANGED <<selected_on, lastReplace>>

\* replace_selected, the command of replace_btn (a disabled button takes
\* no click)
ReplaceSelected ==
    LET rects == editor.selected_text_rects
        page == editor.current_page
    IN  /\ editor.replace_btn = "normal"
        /\ EditorEvent
        /\ UNCHANGED selected_on
        /\ IF editor.doc = << >> \/ rects = << >> \/ editor.new_text_entry = ""
           THEN UNCHANGED <<editor, lastReplace>>
           ELSE /\ editor' =
                      [editor EXCEPT
                          !.doc[page + 1] =
                              replace_on_page(@, rects, editor.new_text_entry),
                          !.new_text_entry = "",
                          !.replace_btn = "disabled"]
                /\ lastReplace' = [n |-> nui + 1, pdf_path |-> editor.pdf_path,
                                   page |-> page, rects |-> rects]

PrevPage ==
    /\ editor.doc # << >>
    /\ EditorEvent
    /\ editor' = IF editor.current_page > 0
                 THEN [editor EXCEPT !.current_page = @ - 1]
                 ELSE editor
    /\ UNCHANGED <<selected_on, lastReplace>>

NextPage ==
    /\ editor.doc # << >>
    /\ EditorEvent
    /\ editor' = IF editor.current_page < Len(editor.doc) - 1
                 THEN [editor EXCEPT !.current_page = @ + 1]
                 ELSE editor
    /\ UNCHANGED <<selected_on, lastReplace>>

\* zoom_in: zoom_level += 0.2
ZoomIn ==
    /\ editor.zoom_level + 2 <= MaxZoom
    /\ EditorEvent
    /\ editor' = [editor EXCEPT !.zoom_level = @ + 2]
    /\ UNCHANGED <<selected_on, lastReplace>>

\* zoom_out: the float that stands for 0.5 after steps of 0.2 from 1.5 is
\* 0.5000000000000002, which is > 0.5
ZoomOut ==
    /\ EditorEvent
    /\ editor' = IF editor.zoom_level >= 5
                 THEN [editor EXCEPT !.zoom_level = @ - 2]
                 ELSE editor
    /\ UNCHANGED <<selected_on, lastReplace>>

EditorNext ==
    \/ \E file_path \in EditorFiles : OpenPdf(file_path)
    \/ \E canvas_x \in {45}, canvas_y \in {22, 52, 500} :
            OnCanvasClick(canvas_x, canvas_y)
    \/ \E text \in {"", "new"} : TypeNewText(text)
    \/ ReplaceSelected
    \/ PrevPage
    \/ NextPage
    \/ ZoomIn
    \/ ZoomOut

EditorSpec == Init /\ [][EditorNext]_vars

Next ==
    \/ \E u \in Users : IncrementPdfCount(u)
    \/ \E u \in Users : ResetMonthlyCount(u)
    \/ \E body \in Bodies : StripeWebhook(body)
    \/ \E u \in Users, f \in BOOLEAN, ok \in BOOLEAN : CancelSubscription(u, f, ok)
    \/ \E sid \in StripeIds :
            UpdateSubscriptionFromStripe(sid, "expired", EventTime)

Spec == Init /\ [][Next]_vars

(* ------------------------------- claims ------------------------------- *)
\* C1: in every reachable state each user has at most one user_subscriptions
\* row whose status is "active".
C1_AtMostOneActiveRow ==
    \A u \in Users : Cardinality(ActiveRows(subs, u)) <= 1

\* C2 as stated: a user's pdf_count_this_month becomes smaller only in a
\* reset_monthly_count step for that user.
C2_CountDecreasesOnlyByReset ==
    [][\A u \in Users :
          users'[u].pdf_count_this_month < users[u].pdf_count_this_month =>
              lastOp'.op = "reset_monthly_count" /\ lastOp'.user = u]_vars

\* C2 amended: a user's pdf_count_this_month becomes smaller only in a
\* reset_monthly_count step for that user or in a step that commits
\* create_subscription for that user, which sets it to 0.
C2_CountDecreasesOnlyByResetOrCreate ==
    [][\A u \in Users :
          users'[u].pdf_count_this_month < users[u].pdf_count_this_month =>
              \/ lastOp'.op = "reset_monthly_count" /\ lastOp'.user = u
              \/ /\ lastOp'.commit = "create_subscription"
                 /\ lastOp'.user = u
                 /\ users'[u].pdf_count_this_month = 0]_vars

\* a create_subscription has just taken a user's count from above 0 to 0
C2_Witness ==
    /\ lastOp.commit = "create_subscription"
    /\ lastOp.pre_count > 0
    /\ users[lastOp.user].pdf_count_this_month = 0

\* the owner of the target of the last download request, None without one
DownloadOwner ==
    IF lastReq.target = 0 THEN None
    ELSE IF lastReq.op = "app_download" THEN pdfs[lastReq.target].user_id
    ELSE IF lastReq.op = "routes_download"
    THEN SESSIONS[lastReq.target].user_email
    ELSE None

\* C3: a download that names a document or session of user A, made by a
\* caller authenticated as another user B, is answered 403, returns no
\* file and creates no version row (stated for the requests the handler
\* would serve to A; the others it rejects before it looks at the owner).
C3_DownloadOfAnothersDocumentForbidden ==
    (/\ lastReq.op \in {"app_download", "routes_download"}
     /\ lastReq.servable
     /\ lastReq.caller \in Users
     /\ DownloadOwner \in Users
     /\ DownloadOwner # lastReq.caller)
        => /\ lastReq.status = 403
           /\ lastReq.returned = 0
           /\ lastReq.version = 0

C5_UploadGatedAndMetered ==
    [][(/\ lastReq'.op = "routes_upload"
        /\ nops' = nops + 1
        /\ lastReq'.status = 200
        /\ lastReq'.caller \in Users)
          => /\ can_process_pdf(users[lastReq'.caller])
             /\ users'[lastReq'.caller].pdf_count_this_month =
                    users[lastReq'.caller].pdf_count_this_month + 1]_vars

\* C6: a create_subscription committed for a user who has an active row
\* leaves every previously active row of the user cancelled with end_date
\* and cancelled_at set, the new row active, and exactly one active row.
C6_CreateCancelsPriorActiveRow ==
    [][(/\ lastOp'.commit = "create_subscription"
        /\ nops' = nops + 1
        /\ ActiveRows(subs, lastOp'.user) # {})
          => /\ \A i \in ActiveRows(subs, lastOp'.user) :
                    /\ subs'[i].status = "cancelled"
                    /\ subs'[i].end_date # NoTime
                    /\ subs'[i].cancelled_at # NoTime
             /\ subs'[lastOp'.row].status = "active"
             /\ Cardinality(ActiveRows(subs', lastOp'.user)) = 1]_vars

ExternalIds == StripeIds \cup {"sub_unknown"}

\* C8: in every reachable state, update_subscription_from_stripe on an id
\* a row carries sets that row's status and current_period_end and nothing
\* else in the table, sets the owner's plan to free with limit 5 exactly
\* when the status is cancelled, expired or unpaid and leaves the users as
\* they are otherwise; on an id no row carries it changes nothing.
C8_UpdateFromExternal ==
    \A sid \in ExternalIds, st \in Statuses, pe \in {EventTime, UtcNow} :
        LET r == update_subscription_from_stripe(subs, users, sid, st, pe)
            M == {i \in 1..Len(subs) : subs[i].stripe_subscription_id = sid}
        IN  IF M = {}
            THEN r.subs = subs /\ r.users = users
            ELSE \A i \in M :
                    LET uid == subs[i].user_id
                    IN  /\ r.subs = [subs EXCEPT ![i].status = st,
                                                 ![i].current_period_end = pe]
                        /\ r.users =
                             IF st \in {"cancelled", "expired", "unpaid"}
                             THEN [users EXCEPT ![uid].current_plan = "free",
                                                ![uid].pdf_limit = 5]
                             ELSE users
                        /\ st \in {"active", "past_due"} =>
                             /\ r.users[uid].current_plan = users[uid].current_plan
                             /\ r.users[uid].pdf_limit = users[uid].pdf_limit

\* an update to "expired" has just been committed on the row of a paying
\* user, who is on the free plan now
C8_Witness ==
    /\ lastOp.op = "update"
    /\ lastOp.commit = "update_subscription_from_stripe"
    /\ subs[lastOp.row].status = "expired"
    /\ subs[lastOp.row].current_period_end = EventTime
    /\ SubscriptionPlan[subs[lastOp.row].plan_id].name # "free"
    /\ users[lastOp.user].current_plan = "free"
    /\ users[lastOp.user].pdf_limit = 5

\* C9: in every reachable state, cancel_subscription with
\* cancel_at_period_end = False for a user with an active row answers 200,
\* leaves the row cancelled with end_date and cancelled_at set and the user
\* on the free plan with limit 5; for a user without one it answers 404
\* and changes nothing.
C9_ImmediateCancel ==
    \A u \in Users :
        LET r == cancel_subscription(subs, users, u, FALSE)
        IN  IF ActiveRows(subs, u) # {}
            THEN /\ r.status = 200
                 /\ \A i \in ActiveRows(subs, u) :
                        /\ r.subs[i].status = "cancelled"
                        /\ r.subs[i].end_date # NoTime
                        /\ r.subs[i].cancelled_at # NoTime
                 /\ r.users[u].current_plan = "free"
                 /\ r.users[u].pdf_limit = 5
            ELSE /\ r.status = 404
                 /\ r.subs = subs
                 /\ r.users = users

VersionsOf(V, original_pdf_id) ==
    LET rows[k \in 0..Len(V)] ==
            IF k = 0 THEN << >>
            ELSE IF V[k].original_pdf_id = original_pdf_id
            THEN Append(rows[k - 1], V[k].version_number)
            ELSE rows[k - 1]
    IN  rows[Len(V)]

\* C11: as long as no two create_pdf_version calls have overlapped, the
\* versions of every document are numbered 1..n in creation order,
\* whatever versions other documents have.
C11_VersionsNumberedInOrder ==
    serial =>
        \A d \in 1..Len(pdfs) :
            LET N == VersionsOf(pdf_versions, d)
            IN  \A k \in 1..Len(N) : N[k] = k

\* two documents have versions, one of them several, created one call
\* after the other
C11_Witness ==
    /\ serial
    /\ \A w \in Writers : pending[w] = Idle
    /\ \E d, e \in 1..Len(pdfs) :
          /\ d # e
          /\ Len(VersionsOf(pdf_versions, d)) >= 2
          /\ Len(VersionsOf(pdf_versions, e)) >= 1
          /\ pdf_versions[1].original_pdf_id = d
          /\ pdf_versions[2].original_pdf_id = e

C12_SoftDelete ==
    [][/\ (lastReq'.op = "delete_pdf" /\ nops' = nops + 1) =>
            IF get_pdf_by_id(pdfs, lastReq'.target) # 0
            THEN /\ lastReq'.status = 200
                 /\ pdfs' = [pdfs EXCEPT ![lastReq'.target].is_active = FALSE]
                 /\ pdf_pages' = pdf_pages
                 /\ pdf_versions' = pdf_versions
            ELSE /\ lastReq'.status = 404
                 /\ pdfs' = pdfs
       /\ \A i \in 1..Len(pdfs) :
            ~pdfs[i].is_active => (i <= Len(pdfs') /\ ~pdfs'[i].is_active)
       /\ \A i \in 1..Len(pdfs') :
            IF pdfs'[i].is_active
            THEN get_pdf_by_session(pdfs', pdfs'[i].session_id) = i
            ELSE /\ get_pdf_by_id(pdfs', i) = 0
                 /\ get_pdf_by_session(pdfs', pdfs'[i].session_id) = 0
                 /\ \A uid \in Callers :
                        /\ i \notin get_all_pdfs(pdfs', uid)
                        /\ \A matching \in SUBSET (1..Len(pdfs')) :
                               i \notin search_pdfs(pdfs', matching, uid)
                 /\ \A request \in DownloadRequests :
                        (/\ request.session_id = pdfs'[i].session_id
                         /\ request.edits + request.signatures > 0)
                            => app_download_pdf(pdfs', pdf_versions',
                                                request).answer.status = 404]_vars

\* a document with pages has just been deleted: its row and pages are there
C12_Witness ==
    /\ lastReq.op = "delete_pdf"
    /\ lastReq.status = 200
    /\ lastReq.target \in 1..Len(pdfs)
    /\ ~pdfs[lastReq.target].is_active
    /\ get_pdf_pages(pdf_pages, lastReq.target) # {}

\* the user the cache serves for u: the cached one, else the users row
CachedUser(u) ==
    load_user(USERS, google, u)[u]

\* C13: a /drive-token request with a valid JWT of a user whose users row
\* holds a refresh token (the provider honouring it when asked) is
\* answered 200 with an access token that is not expired: the cached one
\* while its expiry is in the future, else a new one, which the cache and
\* the users row then both hold with its new expiry.
C13_DriveTokenValid ==
    [][(/\ lastAuth' # lastAuth
        /\ lastAuth'.op = "drive_token"
        /\ lastAuth'.token = "valid"
        /\ lastAuth'.provider # "rejected"
        /\ google[lastAuth'.user].exists
        /\ google[lastAuth'.user].refresh_token # None)
          => LET u == lastAuth'.user
             IN  /\ lastAuth'.status = 200
                 /\ lastAuth'.access_token = USERS'[u].access_token
                 /\ now < USERS'[u].token_expiry
                 /\ IF now < CachedUser(u).token_expiry
                    THEN /\ ~lastAuth'.refreshed
                         /\ lastAuth'.access_token = CachedUser(u).access_token
                    ELSE /\ lastAuth'.refreshed
                         /\ lastAuth'.access_token = issued'
                         /\ issued' = issued + 1
                         /\ google'[u].access_token = lastAuth'.access_token
                         /\ google'[u].token_expiry = USERS'[u].token_expiry]_vars

\* C14: a request to an endpoint other than logout whose JWT has a bad
\* signature or has expired is answered 401 and changes no stored state.
C14_BadTokenUnauthorized ==
    [][(/\ lastAuth' # lastAuth
        /\ lastAuth'.token \in {"bad_signature", "expired"}
        /\ lastAuth'.op # "logout")
          => /\ lastAuth'.status = 401
             /\ UNCHANGED <<USERS, google, users, subs, pdfs, pdf_pages,
                            pdf_versions, SESSIONS>>]_vars

\* the user after k calls of increment_pdf_count()
after_increments(u, k) ==
    LET f[i \in 0..k] ==
            IF i = 0 THEN u ELSE increment_pdf_count(f[i - 1])
    IN  f[k]

\* C17: increment_pdf_count adds one to the user's count and
\* reset_monthly_count sets it to 0, changing nothing else of the user;
\* for every user the program can hold, can_process_pdf after a reset and
\* k increments is true exactly when the plan is pro or k is below the
\* user's pdf_limit, and the same holds of the count the user has.
C17_QuotaCheck ==
    [][\A u \in Users :
          LET was == users[u]
              is == users'[u]
              mine(op) == lastOp'.op = op /\ lastOp'.user = u
          IN  /\ mine("increment_pdf_count") =>
                    is = [was EXCEPT !.pdf_count_this_month = @ + 1]
              /\ mine("reset_monthly_count") =>
                    is = [was EXCEPT !.pdf_count_this_month = 0]
              /\ \A k \in 0..MaxQuota :
                    LET later == after_increments(reset_monthly_count(is), k)
                    IN  /\ later.pdf_count_this_month = k
                        /\ can_process_pdf(later) <=>
                              (is.current_plan = "pro" \/ k < is.pdf_limit)
              /\ can_process_pdf(is) <=>
                    \/ is.current_plan = "pro"
                    \/ is.pdf_count_this_month < is.pdf_limit]_vars

\* a free user has just been counted up to the free limit and is refused,
\* while a pro user counted as far is not
C17_Witness ==
    /\ lastOp.op = "increment_pdf_count"
    /\ lastOp.pre_count = PLAN_FREE_LIMIT - 1
    /\ users[lastOp.user].current_plan = "free"
    /\ users[lastOp.user].pdf_limit = PLAN_FREE_LIMIT
    /\ users[lastOp.user].pdf_count_this_month = PLAN_FREE_LIMIT
    /\ ~can_process_pdf(users[lastOp.user])
    /\ \E v \in Users :
          /\ users[v].current_plan = "pro"
          /\ users[v].pdf_count_this_month >= PLAN_FREE_LIMIT
          /\ can_process_pdf(users[v])

\* C20: a user with an active subscription row has the current_plan and
\* the pdf_limit of that row's plan.
C20_PlanOfActiveRow ==
    \A u \in Users :
        \A i \in ActiveRows(subs, u) :
            /\ users[u].current_plan = SubscriptionPlan[subs[i].plan_id].name
            /\ users[u].pdf_limit = SubscriptionPlan[subs[i].plan_id].pdf_limit

\* the document the claim asks for: on every page what the source has
\* there, then the signatures that name the page and whose image decodes,
\* in the order of the request, each at (x, y, x + width, y + height)
Placed(doc, signatures) ==
    [p \in 1..Len(doc) |->
        LET kept == SelectSeq(signatures,
                              LAMBDA sig : /\ sig.page = p - 1
                                           /\ sig.image # "corrupt")
        IN  doc[p] \o [i \in 1..Len(kept) |->
                          [rect |-> <<kept[i].x, kept[i].y,
                                      kept[i].x + kept[i].width,
                                      kept[i].y + kept[i].height>>,
                           image |-> kept[i].image]]]

\* C15: a call of apply_signatures with a non-empty list on a source file
\* that is there returns True, and the file at output_path then holds the
\* source's pages with exactly the signatures that did not fail, each at
\* its rectangle on its page.
C15_SignaturesApplied ==
    [][(/\ lastFile'.op = "apply_signatures"
        /\ nfile' = nfile + 1
        /\ Len(lastFile'.signatures) > 0
        /\ exists(files, lastFile'.input))
          => /\ lastFile'.status = TRUE
             /\ exists(files', lastFile'.output)
             /\ files'[lastFile'.output].doc =
                    Placed(files[lastFile'.input].doc,
                           lastFile'.signatures)]_vars

\* C16: when a merge-pdfs or merge-edited-pdfs request has been answered,
\* none of the paths it created exists, every stored session file is
\* there with the content it had, and the disk holds the files it held.
C16_MergeLeavesNoFiles ==
    [][(/\ lastFile'.op \in {"merge_pdfs", "merge_edited_pdfs"}
        /\ nfile' = nfile + 1)
          => /\ \A path \in lastFile'.created : ~exists(files', path)
             /\ \A i \in 1..Len(uploads) :
                    exists(files, uploads[i].file_path) =>
                        /\ exists(files', uploads[i].file_path)
                        /\ files'[uploads[i].file_path] =
                               files[uploads[i].file_path]
             /\ DOMAIN files' = DOMAIN files]_vars

\* a merge of stored sessions was answered with an error after it had
\* created files, and the sessions' files are there
C16_Witness ==
    /\ lastFile.op = "merge_edited_pdfs"
    /\ lastFile.status = 500
    /\ lastFile.created # {}
    /\ Len(uploads) = MaxUploads
    /\ \A i \in 1..Len(uploads) : exists(files, uploads[i].file_path)

\* C19: no stored file (an upload or an edited output) is written again
\* by a later request.
C19_NoPathWrittenTwice ==
    [][\A path \in DOMAIN files :
          (path.prefix \in {"", "edited"} /\ exists(files', path))
              => files'[path].writer = files[path].writer]_vars

\* C21: a subscription row whose status is cancelled keeps that status in
\* every later step.
C21_CancelledIsTerminal ==
    [][\A i \in 1..Len(subs) :
          subs[i].status = "cancelled" => subs'[i].status = "cancelled"]_vars

\* C22: every entry of the USERS cache carries the Google access token, the
\* refresh token and the token expiry of the user's row.
C22_CacheCoherent ==
    \A u \in Users :
        (USERS[u].exists /\ google[u].exists) =>
            /\ USERS[u].access_token = google[u].access_token
            /\ USERS[u].refresh_token = google[u].refresh_token
            /\ USERS[u].token_expiry = google[u].token_expiry

\* the endpoints that take the user from the JWT of the request
TokenEndpoints ==
    {"me", "drive_token", "validate", "my_subscription", "create_checkout",
     "cancel", "usage"}

\* C25: the request that follows a logout and carries the token of that
\* logout is not answered on behalf of the user who logged out.
C25_LoggedOutTokenRejected ==
    [][(/\ lastAuth.op = "logout"
        /\ lastAuth.user # None
        /\ lastAuth.user \notin AUTH_SESSIONS
        /\ lastAuth'.op \in TokenEndpoints
        /\ lastAuth'.token = lastAuth.token)
       => ~(lastAuth'.user = lastAuth.user /\ lastAuth'.status = 200)]_vars

\* C26: each active document row an upload stored has exactly total_pages
\* page rows, numbered 0..total_pages-1, each number once.
C26_PagesMatchTotalPages ==
    \A id \in 1..Len(pdfs) :
        (pdfs[id].is_active /\ pdfs[id].user_id = None) =>
            /\ get_pdf_pages(pdf_pages, id) = 0..(pdfs[id].total_pages - 1)
            /\ Cardinality({j \in 1..Len(pdf_pages) : pdf_pages[j].pdf_id = id})
                  = pdfs[id].total_pages

\* the edits of a call whose page is not in the document
Inapplicable(doc, edits) ==
    {i \in 1..Len(edits) : edits[i].page \notin 0..(Len(doc) - 1)}

\* C23: a call of an apply_text_edits with an edit that cannot be applied
\* (its page is outside the document) returns failure and writes no output
\* file.
C23_FailedEditFailsCall ==
    [][(/\ lastEdit' # lastEdit
        /\ exists(files, lastEdit'.pdf_path)
        /\ Inapplicable(files[lastEdit'.pdf_path].doc, lastEdit'.edits) # {})
       => /\ ~lastEdit'.ok
          /\ ~exists(files', lastEdit'.output_path)]_vars

\* the color the specification gives an edit: the three bytes of a string
\* of six hexadecimal digits (after its #), black for every other value
spec_color(color) ==
    LET hex_color == IF color.str /\ Len(color.text) > 0 /\ color.text[1] = "#"
                     THEN Tail(color.text) ELSE color.text
    IN  IF color.str /\ Len(hex_color) = 6 /\ ~int16_raises(hex_color)
        THEN <<int16(SubSeq(hex_color, 1, 2)), int16(SubSeq(hex_color, 3, 4)),
               int16(SubSeq(hex_color, 5, 6))>>
        ELSE <<0, 0, 0>>

\* the document with every edit applied in the color of spec_color
Colored(doc, edits) ==
    LET f[i \in 0..Len(edits)] ==
            IF i = 0 THEN doc
            ELSE [f[i - 1] EXCEPT ![edits[i].page + 1] =
                     Append(@, [rect |-> edits[i].bbox,
                                image |-> edits[i].new_text,
                                color |-> spec_color(edits[i].color)])]
    IN  f[Len(edits)]

\* C27: a call of apply_text_edits whose edits all name pages of the
\* document returns success and writes every edit, in the color of its
\* #RRGGBB string, in black when the color is absent or cannot be parsed.
C27_ColorParsedOrBlack ==
    [][(/\ lastEdit' # lastEdit
        /\ lastEdit'.function = "apply_text_edits"
        /\ exists(files, lastEdit'.pdf_path)
        /\ Inapplicable(files[lastEdit'.pdf_path].doc, lastEdit'.edits) = {})
       => /\ lastEdit'.ok
          /\ exists(files', lastEdit'.output_path)
          /\ files'[lastEdit'.output_path].doc =
                 Colored(files[lastEdit'.pdf_path].doc, lastEdit'.edits)]_vars

\* the edits of the request that was answered last: those of the call of
\* apply_text_edits it made, none when it made no call
request_edits(last_edit, n) ==
    IF last_edit.n = n THEN last_edit.edits ELSE << >>

\* C28: the file a download answered 200 returns holds the original's
\* pages with the text edits of the request and, placed on that edited
\* document, its signatures (the edits alone or the signatures alone when
\* the request has only those); every other path the request created is
\* gone, and the original holds what it held.
C28_SignaturesOnEditedFile ==
    [][(/\ lastFile'.op = "download_pdf"
        /\ nfile' = nfile + 1
        /\ lastFile'.status = 200)
       => /\ exists(files', lastFile'.output)
          /\ files'[lastFile'.output].doc =
                 Placed(Colored(files[lastFile'.input].doc,
                                request_edits(lastEdit', nfile')),
                        lastFile'.signatures)
          /\ \A path \in lastFile'.created \ {lastFile'.output} :
                 ~exists(files', path)
          /\ files'[lastFile'.input] = files[lastFile'.input]]_vars

\* a download with edits and signatures has been answered with a file
\* that holds an edit on page 0 and a signature on page 1
C28_Witness ==
    /\ lastFile.op = "download_pdf"
    /\ lastFile.status = 200
    /\ Len(lastFile.signatures) > 0
    /\ Len(request_edits(lastEdit, nfile)) > 0
    /\ exists(files, lastFile.output)
    /\ Len(files[lastFile.output].doc[1]) > 0
    /\ Len(files[lastFile.output].doc[2]) > 0
    /\ \A path \in lastFile.created \ {lastFile.output} : ~exists(files, path)

\* C24: a GET /api/stats request with the bearer token of a user answers
\* that user's active documents, the versions of that user's documents and
\* that user's stored bytes; a request without a valid token answers the
\* totals over every user.
C24_StatsOfTheCaller ==
    [][lastStats'.n # lastStats.n =>
          LET r == statistics(pdfs, pdf_versions, lastStats'.bearer)
          IN  /\ lastStats'.total_pdfs = r.total_pdfs
              /\ lastStats'.total_versions = r.total_versions
              /\ lastStats'.total_storage_bytes = r.total_storage_bytes]_vars

\* C29: list_user_files for a user returns only files that were uploaded
\* for that user.
C29_ListsOwnFilesOnly ==
    \A file \in lastList.files : file.user_email = lastList.user_email

\* C30: every rect replace_selected applies was selected by a click on the
\* page on display of the file that is open.
C30_SelectionOfShownPage ==
    [][lastReplace'.n # lastReplace.n =>
          selected_on = Shown(lastReplace'.pdf_path, lastReplace'.page)]_vars

============================================================================
